---- MODULE Spec2Model ----
(***************************************************************************)
(* Buster: settlement of a two-player bet from a drand beacon round.       *)
(*                                                                         *)
(* The settlement handler play_game (legacy/server/app/api) talks to two   *)
(* external systems: the escrow contract (the ledger, reached through      *)
(* BlockchainClient) and the drand beacon (reached through                 *)
(* DrandClientSync).  A request is modelled at the granularity of its      *)
(* external interactions: get_bet, get_latest, settle_wager_with_drand.    *)
(* Requests of different server processes interleave at these points; the  *)
(* bet's status lives on the ledger only.                                  *)
(***************************************************************************)
EXTENDS Integers, Sequences, FiniteSets, TLC

\* ------------------------------------------------------------------ state
VARIABLES
    ledger,   \* the escrow contract: bet id -> bet record
    beacon,   \* the drand chain: beacon[n] is the randomness of round n
    req,      \* the play_game requests: locals, position, response
    txs,      \* the settle transaction each request handed to the ledger
    seeds,         \* SeedManager._seeds: seat -> <<raw, commitment>>
    seedCall,      \* the last completed SeedManager call and its result
    creators,      \* create_seed calls in progress, one per caller
    known_rounds,  \* KNOWN_DRAND_ROUNDS: round number -> round data
    verifyCall,    \* the last completed verifier call and its result
    deriveCall,    \* the last completed conversion or derivation call
    firstRuns,     \* the results of the derivations run before anything else
    queue,         \* MatchmakingQueue.queue: the waiting players, oldest first
    queueCall,     \* the last completed MatchmakingQueue call and its result
    joined,        \* the number of add_player calls made so far
    workers,       \* MatchmakingQueue calls in progress, one per caller
    queueHistory,  \* what the interleaved queue calls returned and removed
    singleton,     \* matching._matchmaking_queue and the queues constructed
    getters,       \* get_matchmaking_queue calls in progress, one per caller
    verifiers,     \* the DrandVerifier objects constructed so far
    instanceCall,  \* the last completed call on one of these objects
    block,         \* a count of outcomes over consecutive drand values
    waiter         \* a wait_for_round call: locals, position, result

\* ------------------------------------------------------------------ bounds
MaxReqs == 2      \* settle requests issued in one behaviour
MaxRound == 2     \* beacon rounds published in one behaviour

Reqs == 1..MaxReqs
Bets == {1}

\* ------------------------------------------------- contract status codes
Pending == 0
Active == 1
Settled == 2
Canceled == 3

\* ------------------------------------------------------------ hex strings
\* A string is a sequence of one-character strings.
HexDigits ==
    {"0","1","2","3","4","5","6","7","8","9",
     "a","b","c","d","e","f","A","B","C","D","E","F"}

DigitVal(c) ==
    CASE c = "0" -> 0 [] c = "1" -> 1 [] c = "2" -> 2 [] c = "3" -> 3
      [] c = "4" -> 4 [] c = "5" -> 5 [] c = "6" -> 6 [] c = "7" -> 7
      [] c = "8" -> 8 [] c = "9" -> 9
      [] c \in {"a","A"} -> 10 [] c \in {"b","B"} -> 11
      [] c \in {"c","C"} -> 12 [] c \in {"d","D"} -> 13
      [] c \in {"e","E"} -> 14 [] c \in {"f","F"} -> 15
      [] OTHER -> 0

RECURSIVE LStrip(_)
LStrip(s) == IF Len(s) > 0 /\ s[1] = " " THEN LStrip(Tail(s)) ELSE s

RECURSIVE RStrip(_)
RStrip(s) ==
    IF Len(s) > 0 /\ s[Len(s)] = " " THEN RStrip(SubSeq(s, 1, Len(s) - 1)) ELSE s

RECURSIVE DigitsValue(_, _)
DigitsValue(s, acc) ==
    IF Len(s) = 0 THEN acc
    ELSE IF s[1] = "_" THEN DigitsValue(Tail(s), acc)
    ELSE DigitsValue(Tail(s), acc * 16 + DigitVal(s[1]))

\* Python's int(s, 16): surrounding blanks, an optional sign, an optional
\* 0x/0X prefix, then hex digits with single underscores between them.
\* The result is [ok, val]; ok = FALSE stands for ValueError.
PyIntBase16(s) ==
    LET t == RStrip(LStrip(s))
        neg == Len(t) > 0 /\ t[1] = "-"
        u == IF Len(t) > 0 /\ t[1] \in {"+", "-"} THEN Tail(t) ELSE t
        pfx == Len(u) >= 2 /\ u[1] = "0" /\ u[2] \in {"x", "X"}
        v == IF pfx THEN SubSeq(u, 3, Len(u)) ELSE u
        w == IF pfx /\ Len(v) > 0 /\ v[1] = "_" THEN Tail(v) ELSE v
        wellFormed ==
            /\ Len(w) > 0
            /\ w[1] \in HexDigits
            /\ w[Len(w)] \in HexDigits
            /\ \A i \in 1..Len(w) : w[i] \in HexDigits \cup {"_"}
            /\ \A i \in 1..(Len(w) - 1) : ~(w[i] = "_" /\ w[i + 1] = "_")
    IN  IF wellFormed
        THEN [ok |-> TRUE,
              val |-> IF neg THEN 0 - DigitsValue(w, 0) ELSE DigitsValue(w, 0)]
        ELSE [ok |-> FALSE, val |-> 0]

\* DrandClientSync.randomness_to_int: drop a leading "0x", then int(.., 16).
randomness_to_int(randomness_hex) ==
    IF Len(randomness_hex) >= 2 /\ randomness_hex[1] = "0" /\ randomness_hex[2] = "x"
    THEN PyIntBase16(SubSeq(randomness_hex, 3, Len(randomness_hex)))
    ELSE PyIntBase16(randomness_hex)

\* DiceGame.derive_rolls_from_drand (the message text is left out).
derive_rolls_from_drand(drand_value) ==
    LET player1_roll == (drand_value % 6) + 1
        player2_roll == ((drand_value \div 256) % 6) + 1
    IN  [player1_roll |-> player1_roll,
         player2_roll |-> player2_roll,
         winner |-> IF player1_roll > player2_roll THEN 1
                    ELSE IF player2_roll > player1_roll THEN 2
                    ELSE 1]

\* ------------------------------------------------------------- addresses
Repeat(c, n) == [i \in 1..n |-> c]

\* A validate_eth_address that looks at the prefix only.
validate_eth_address_prefix_only(address) ==
    Len(address) >= 2 /\ address[1] = "0" /\ address[2] \in {"x", "X"}

\* utils.validate_eth_address: Web3.to_checksum_address succeeds on 40 hex
\* digits with an optional 0x prefix and raises on anything else.
validate_eth_address(address) ==
    LET body == IF Len(address) >= 2 /\ address[1] = "0" /\ address[2] \in {"x", "X"}
                THEN SubSeq(address, 3, Len(address))
                ELSE address
    IN  Len(body) = 40 /\ \A i \in 1..40 : body[i] \in HexDigits

\* The addresses a caller sends: a well-formed one, one a digit short, and
\* the malformed address of the server's tests.
PlayerAddresses ==
    { <<"0", "x">> \o Repeat("a", 40),
      <<"0", "x">> \o Repeat("a", 39),
      <<"0", "x", "G", "G", "G", "G">> }

\* The randomness values the beacon may publish.
RandomnessValues ==
    { <<"1", "0", "5">>,             \* 261: rolls 4 and 2, player 1 wins
      <<"0", "x", "3", "0", "2">>,   \* 770: rolls 3 and 4, player 2 wins
      <<"0", "g">> }                 \* not hex

\* ------------------------------------------------- bytes, hex and hashing
SeedBytes == 32   \* secrets.token_bytes(32)

HexChars == <<"0","1","2","3","4","5","6","7","8","9","a","b","c","d","e","f">>

\* bytes.hex(): two lower-case digits for every byte (a byte is 0..255).
BytesHex(raw) ==
    [i \in 1..(2 * Len(raw)) |->
        IF i % 2 = 1 THEN HexChars[(raw[(i + 1) \div 2] \div 16) + 1]
        ELSE HexChars[(raw[i \div 2] % 16) + 1]]

\* bytes.fromhex(): blanks are skipped before each byte, a byte is two hex
\* digits of either case next to each other.  at holds the positions of
\* the characters that are not blank.  The result is [ok, val]; ok = FALSE
\* stands for ValueError.
BytesFromHex(s) ==
    LET at == SelectSeq([i \in 1..Len(s) |-> i], LAMBDA i : s[i] # " ")
        n == Len(at) \div 2
        ok == /\ Len(at) % 2 = 0
              /\ \A k \in 1..Len(at) : s[at[k]] \in HexDigits
              /\ \A k \in 1..n : at[2 * k] = at[2 * k - 1] + 1
    IN  [ok |-> ok,
         val |-> IF ok
                 THEN [k \in 1..n |->
                          16 * DigitVal(s[at[2 * k - 1]]) + DigitVal(s[at[2 * k]])]
                 ELSE <<>>]

\* hashlib.sha256(data).hexdigest() as an ideal hash: the digest of a byte
\* string is a term over that byte string, so two digests are equal exactly
\* when the byte strings are.
Sha256HexDigest(data) == <<"sha256">> \o data

\* ----------------------------------------------------------- SeedManager
Seats == {"PlayerA", "PlayerB"}

\* The values secrets.token_bytes(32) may return.
RawSeeds == { Repeat(171, SeedBytes), Repeat(10, SeedBytes) }

\* dict assignment d[k] = v
DictPut(d, k, v) == [x \in (DOMAIN d) \cup {k} |-> IF x = k THEN v ELSE d[x]]

NoSeeds == [seat \in {} |-> <<>>]

\* The outcome of a call: the exception raised ("" for none), the string
\* returned (ret), the boolean returned (ok) and the store afterwards.
SeedReturn(store, ret, ok) == [raised |-> "", ret |-> ret, ok |-> ok, store |-> store]
SeedRaise(store, exc) == [raised |-> exc, ret |-> <<>>, ok |-> FALSE, store |-> store]

\* A create_seed without the membership test: a second call replaces the
\* seat's seed.
create_seed_replacing(store, seat, raw) ==
    LET commitment == Sha256HexDigest(raw)
    IN  SeedReturn(DictPut(store, seat, <<raw, commitment>>), commitment, FALSE)

\* SeedManager.create_seed; raw is the value token_bytes returns.
create_seed(store, seat, raw) ==
    IF seat \in DOMAIN store THEN SeedRaise(store, "ValueError")
    ELSE LET commitment == Sha256HexDigest(raw)
         IN  SeedReturn(DictPut(store, seat, <<raw, commitment>>), commitment, FALSE)

\* A reveal_seed that forgets the seed once it is revealed.
reveal_seed_once(store, seat) ==
    IF seat \notin DOMAIN store THEN SeedRaise(store, "KeyError")
    ELSE SeedReturn([x \in (DOMAIN store) \ {seat} |-> store[x]],
                    BytesHex(store[seat][1]), FALSE)

\* A reveal_seed that answers an unknown seat with an empty string.
reveal_seed_lenient(store, seat) ==
    IF seat \notin DOMAIN store THEN SeedReturn(store, <<>>, FALSE)
    ELSE SeedReturn(store, BytesHex(store[seat][1]), FALSE)

\* SeedManager.reveal_seed
reveal_seed(store, seat) ==
    IF seat \notin DOMAIN store THEN SeedRaise(store, "KeyError")
    ELSE SeedReturn(store, BytesHex(store[seat][1]), FALSE)

\* A verify_commitment that decodes seed_hex before it looks the seat up.
verify_commitment_decode_first(store, seat, seed_hex) ==
    LET decoded == BytesFromHex(seed_hex)
    IN  IF ~decoded.ok THEN SeedRaise(store, "ValueError")
        ELSE IF seat \notin DOMAIN store THEN SeedReturn(store, <<>>, FALSE)
        ELSE SeedReturn(store, <<>>, Sha256HexDigest(decoded.val) = store[seat][2])

\* A verify_commitment that compares seed_hex with the commitment itself.
verify_commitment_unhashed(store, seat, seed_hex) ==
    IF seat \notin DOMAIN store THEN SeedReturn(store, <<>>, FALSE)
    ELSE SeedReturn(store, <<>>, seed_hex = store[seat][2])

\* SeedManager.verify_commitment
verify_commitment(store, seat, seed_hex) ==
    IF seat \notin DOMAIN store THEN SeedReturn(store, <<>>, FALSE)
    ELSE LET decoded == BytesFromHex(seed_hex)
         IN  IF ~decoded.ok THEN SeedRaise(store, "ValueError")
             ELSE SeedReturn(store, <<>>,
                             Sha256HexDigest(decoded.val) = store[seat][2])

UpperChar(c) ==
    CASE c = "a" -> "A" [] c = "b" -> "B" [] c = "c" -> "C"
      [] c = "d" -> "D" [] c = "e" -> "E" [] c = "f" -> "F" [] OTHER -> c

\* str.upper()
Upper(s) == [i \in 1..Len(s) |-> UpperChar(s[i])]

\* The seed_hex arguments a caller passes: the revealed seeds, a revealed
\* seed in upper case, the wrong seed of the tests, the empty string, a
\* string with an odd number of digits and one that is not hex.
SeedHexArgs(store) ==
    { BytesHex(store[seat][1]) : seat \in DOMAIN store }
        \cup { Upper(BytesHex(store[seat][1])) : seat \in DOMAIN store }
        \cup { <<"d","e","a","d","b","e","e","f">>, <<>>,
               <<"a","b","c">>, <<"z","z">> }

\* The last completed call (op = "" before the first).
NoSeedCall == [op |-> "", seat |-> "", seed_hex |-> <<>>,
               raised |-> "", ret |-> <<>>, ok |-> FALSE]

\* The callers of the module-level new_seed, and a create_seed call that
\* has not begun.
Callers == {"t1", "t2"}

NoCreate == [pc |-> "idle", seat |-> "", raw |-> <<>>, commitment |-> <<>>,
             raised |-> ""]

\* ------------------------------------------------------ Python integers
\* A Python int has no width: it is a sign and a magnitude, the magnitude a
\* sequence of base-16 digit values, most significant first, without leading
\* zeros (zero is the empty sequence).
RECURSIVE DropLeadingZeros(_)
DropLeadingZeros(mag) ==
    IF Len(mag) > 0 /\ mag[1] = 0 THEN DropLeadingZeros(Tail(mag)) ELSE mag

PyInt(neg, mag) ==
    LET m == DropLeadingZeros(mag)
    IN  [neg |-> neg /\ Len(m) > 0, mag |-> m]

RECURSIVE NatDigits(_)
NatDigits(n) == IF n = 0 THEN <<>> ELSE Append(NatDigits(n \div 16), n % 16)

\* The Python int of a machine-sized integer.
PyIntOf(n) == IF n < 0 THEN PyInt(TRUE, NatDigits(0 - n)) ELSE PyInt(FALSE, NatDigits(n))

\* The values of the digits of s, underscores dropped.
DigitValues(s) ==
    LET digits == SelectSeq(s, LAMBDA c : c # "_")
    IN  [i \in 1..Len(digits) |-> DigitVal(digits[i])]

\* int(s, 16) with a result of any size: the parse of PyIntBase16, the value
\* kept as a Python int.  The result is [ok, val]; ok = FALSE stands for
\* ValueError.
PyIntBase16Wide(s) ==
    LET t == RStrip(LStrip(s))
        neg == Len(t) > 0 /\ t[1] = "-"
        u == IF Len(t) > 0 /\ t[1] \in {"+", "-"} THEN Tail(t) ELSE t
        pfx == Len(u) >= 2 /\ u[1] = "0" /\ u[2] \in {"x", "X"}
        v == IF pfx THEN SubSeq(u, 3, Len(u)) ELSE u
        w == IF pfx /\ Len(v) > 0 /\ v[1] = "_" THEN Tail(v) ELSE v
        wellFormed ==
            /\ Len(w) > 0
            /\ w[1] \in HexDigits
            /\ w[Len(w)] \in HexDigits
            /\ \A i \in 1..Len(w) : w[i] \in HexDigits \cup {"_"}
            /\ \A i \in 1..(Len(w) - 1) : ~(w[i] = "_" /\ w[i + 1] = "_")
    IN  IF wellFormed
        THEN [ok |-> TRUE, val |-> PyInt(neg, DigitValues(w))]
        ELSE [ok |-> FALSE, val |-> PyInt(FALSE, <<>>)]

\* 16^k modulo m > 0, by squaring.
RECURSIVE Pow16Mod(_, _)
Pow16Mod(k, m) ==
    IF k = 0 THEN 1 % m
    ELSE LET h == Pow16Mod(k \div 2, m)
         IN  IF k % 2 = 0 THEN (h * h) % m ELSE (h * h * 16) % m

\* The digits lo..hi of mag, read as a number, modulo m > 0: the upper
\* half shifted past the lower one, every product reduced at once.
RECURSIVE SegMod(_, _, _, _)
SegMod(mag, lo, hi, m) ==
    IF lo > hi THEN 0
    ELSE IF lo = hi THEN mag[lo] % m
    ELSE LET mid == (lo + hi) \div 2
         IN  (SegMod(mag, lo, mid, m) * Pow16Mod(hi - mid, m)
                + SegMod(mag, mid + 1, hi, m)) % m

MagMod(mag, m) == SegMod(mag, 1, Len(mag), m)

\* Python's a % n for a Python int a and a machine-sized n # 0: the result
\* has the sign of n.
PyMod(a, n) ==
    LET m == IF n < 0 THEN 0 - n ELSE n
        r == MagMod(a.mag, m)
        pos == IF a.neg THEN (m - r) % m ELSE r
    IN  IF n > 0 THEN pos
        ELSE IF pos = 0 THEN 0 ELSE pos - m

\* ---------------------------------------------------- demo: DrandVerifier
\* The module-level table every DrandVerifier starts from and shares (the
\* signature and source entries are left out).
KNOWN_DRAND_ROUNDS ==
    (17598 :> [round |-> 17598,
               randomness |->
        <<"0", "x", "2", "e", "0", "a", "3", "b", "b", "f", "f", "6", "0", "0", "0", "1",
          "1", "a", "0", "a", "e", "2", "1", "c", "9", "2", "e", "8", "d", "4", "c", "9",
          "9", "d", "d", "a", "9", "4", "d", "a", "0", "6", "2", "8", "4", "d", "f", "e",
          "9", "0", "0", "3", "2", "b", "a", "e", "3", "f", "7", "e", "b", "c", "6", "3",
          "3", "9">>,
               timestamp |-> 1708643700, verified |-> TRUE])
    @@ (13629 :> [round |-> 13629,
                  randomness |->
        <<"0", "x", "8", "d", "0", "a", "7", "b", "3", "f", "9", "c", "2", "e", "1", "a",
          "4", "f", "7", "d", "5", "b", "9", "c", "3", "e", "8", "a", "1", "f", "4", "b",
          "7", "d", "9", "c", "2", "e", "5", "f", "8", "a", "1", "b", "4", "c", "7", "d",
          "9", "e", "0", "f", "3", "a", "5", "c", "7", "e", "9", "f", "1", "b">>,
                  timestamp |-> 1708643700, verified |-> TRUE])
    @@ (13630 :> [round |-> 13630,
                  randomness |->
        <<"0", "x", "2", "f", "4", "e", "8", "c", "1", "b", "9", "a", "3", "d", "7", "f",
          "5", "e", "2", "c", "6", "a", "9", "b", "1", "d", "4", "e", "7", "f", "0", "a",
          "3", "b", "8", "c", "1", "d", "4", "e", "7", "f", "0", "a", "3", "b", "8", "c",
          "1", "d", "4", "e", "7", "f", "0", "a", "3", "b", "8", "c", "1", "d">>,
                  timestamp |-> 1708643703, verified |-> TRUE])

\* The round numbers callers ask for: two of the table, the one the
\* verifier's test adds and the one the game's test uses.
RoundNums == {17598, 13629, 13631, 8739}

\* The randomness strings callers add: the value of the verifier's test
\* and a string that is not hex.
AddedRandomness ==
    { <<"0", "x", "1", "2", "3", "4", "5", "6", "7", "8", "9", "0", "a", "b", "c", "d",
        "e", "f", "1", "2", "3", "4", "5", "6", "7", "8", "9", "0", "a", "b", "c", "d",
        "e", "f", "1", "2", "3", "4", "5", "6", "7", "8", "9", "0", "a", "b", "c", "d",
        "e", "f", "1", "2", "3", "4", "5", "6", "7", "8", "9", "0", "a", "b", "c", "d",
        "e", "f">>,
      <<"0", "x", "z", "z">> }

\* The rounds callers add: a new one and one the table already holds.
AddedRounds == {13631, 17598}

\* The timestamps of added rounds, given or read from the clock.
Timestamps == {1708643706}

\* DrandVerifier.add_round
add_round(rounds, round_num, randomness, timestamp) ==
    DictPut(rounds, round_num,
            [round |-> round_num, randomness |-> randomness,
             timestamp |-> timestamp, verified |-> TRUE])

\* DrandVerifier.get_round: <<>> stands for None, <<data>> for a round.
get_round(rounds, round_num) ==
    IF round_num \in DOMAIN rounds THEN <<rounds[round_num]>> ELSE <<>>

\* A randomness_to_int that always drops the first two characters.
DrandVerifier_randomness_to_int_always_strip(randomness_hex) ==
    PyIntBase16Wide(SubSeq(randomness_hex, 3, Len(randomness_hex)))

\* DrandVerifier.randomness_to_int
DrandVerifier_randomness_to_int(randomness_hex) == PyIntBase16Wide(randomness_hex)

\* A calculate_outcome that leaves min_val out of the sum.
DrandVerifier_calculate_outcome_no_offset(drand_value, min_val, max_val) ==
    LET range_size == max_val - min_val + 1
    IN  IF range_size = 0 THEN [ok |-> FALSE, val |-> 0]
        ELSE [ok |-> TRUE, val |-> PyMod(drand_value, range_size)]

\* DrandVerifier.calculate_outcome.  The result is [ok, val]; ok = FALSE
\* stands for ZeroDivisionError.
DrandVerifier_calculate_outcome(drand_value, min_val, max_val) ==
    LET range_size == max_val - min_val + 1
    IN  IF range_size = 0 THEN [ok |-> FALSE, val |-> 0]
        ELSE [ok |-> TRUE, val |-> PyMod(drand_value, range_size) + min_val]

\* A calculate_outcome that leaves min_val out of the sum.
calculate_outcome_no_offset(drand_value, min_val, max_val) ==
    LET range_size == max_val - min_val + 1
    IN  IF range_size = 0 THEN [ok |-> FALSE, val |-> 0]
        ELSE [ok |-> TRUE, val |-> PyMod(drand_value, range_size)]

\* A calculate_outcome that mixes the number of known rounds into the value.
calculate_outcome_by_table(drand_value, min_val, max_val) ==
    LET range_size == max_val - min_val + 1
    IN  IF range_size = 0 THEN [ok |-> FALSE, val |-> 0]
        ELSE [ok |-> TRUE,
              val |-> PyMod(PyIntOf(MagMod(drand_value.mag, 1000)
                                    + Cardinality(DOMAIN known_rounds)),
                            range_size) + min_val]

\* game.calculate_outcome
calculate_outcome(drand_value, min_val, max_val) ==
    LET range_size == max_val - min_val + 1
    IN  IF range_size = 0 THEN [ok |-> FALSE, val |-> 0]
        ELSE [ok |-> TRUE, val |-> PyMod(drand_value, range_size) + min_val]

\* The result of a verifier call: the exception raised ("" for none) and
\* the fields of the returned dictionary; actual_outcome is <<>> for None.
NoVerifyResult ==
    [raised |-> "", valid |-> FALSE, error |-> "", claimed_outcome |-> 0,
     actual_outcome |-> <<>>, randomness |-> <<>>, timestamp |-> 0]

\* A verify_game that recomputes the outcome with the default range.
verify_game_default_range(rounds, round_num, claimed_outcome, min_val, max_val) ==
    LET round_data == get_round(rounds, round_num)
    IN  IF Len(round_data) = 0
        THEN [NoVerifyResult EXCEPT !.error = "not found",
                                    !.claimed_outcome = claimed_outcome]
        ELSE LET drand_int == DrandVerifier_randomness_to_int(round_data[1].randomness)
                 actual_outcome == DrandVerifier_calculate_outcome(drand_int.val, 1, 6)
             IN  IF ~drand_int.ok THEN [NoVerifyResult EXCEPT !.raised = "ValueError"]
                 ELSE [NoVerifyResult EXCEPT
                          !.valid = (actual_outcome.val = claimed_outcome),
                          !.claimed_outcome = claimed_outcome,
                          !.actual_outcome = <<actual_outcome.val>>,
                          !.randomness = round_data[1].randomness,
                          !.timestamp = round_data[1].timestamp]

\* A verify_game that indexes the table without looking the round up first.
verify_game_indexing(rounds, round_num, claimed_outcome, min_val, max_val) ==
    LET round_data == get_round(rounds, round_num)
    IN  IF Len(round_data) = 0
        THEN [NoVerifyResult EXCEPT !.raised = "KeyError"]
        ELSE LET drand_int == DrandVerifier_randomness_to_int(round_data[1].randomness)
                 actual_outcome ==
                     DrandVerifier_calculate_outcome(drand_int.val, min_val, max_val)
             IN  IF ~drand_int.ok THEN [NoVerifyResult EXCEPT !.raised = "ValueError"]
                 ELSE IF ~actual_outcome.ok
                 THEN [NoVerifyResult EXCEPT !.raised = "ZeroDivisionError"]
                 ELSE [NoVerifyResult EXCEPT
                          !.valid = (actual_outcome.val = claimed_outcome),
                          !.claimed_outcome = claimed_outcome,
                          !.actual_outcome = <<actual_outcome.val>>,
                          !.randomness = round_data[1].randomness,
                          !.timestamp = round_data[1].timestamp]

\* DrandVerifier.verify_game (the explanation text is left out).
verify_game(rounds, round_num, claimed_outcome, min_val, max_val) ==
    LET round_data == get_round(rounds, round_num)
    IN  IF Len(round_data) = 0
        THEN [NoVerifyResult EXCEPT !.error = "not found",
                                    !.claimed_outcome = claimed_outcome]
        ELSE LET drand_int == DrandVerifier_randomness_to_int(round_data[1].randomness)
                 actual_outcome ==
                     DrandVerifier_calculate_outcome(drand_int.val, min_val, max_val)
             IN  IF ~drand_int.ok THEN [NoVerifyResult EXCEPT !.raised = "ValueError"]
                 ELSE IF ~actual_outcome.ok
                 THEN [NoVerifyResult EXCEPT !.raised = "ZeroDivisionError"]
                 ELSE [NoVerifyResult EXCEPT
                          !.valid = (actual_outcome.val = claimed_outcome),
                          !.claimed_outcome = claimed_outcome,
                          !.actual_outcome = <<actual_outcome.val>>,
                          !.randomness = round_data[1].randomness,
                          !.timestamp = round_data[1].timestamp]

\* game.verify_outcome: the boolean it returns is the field valid.
verify_outcome(drand_value, claimed_outcome, min_val, max_val) ==
    LET calculated == calculate_outcome(drand_value, min_val, max_val)
    IN  IF ~calculated.ok THEN [NoVerifyResult EXCEPT !.raised = "ZeroDivisionError"]
        ELSE [NoVerifyResult EXCEPT !.valid = (calculated.val = claimed_outcome),
                                    !.claimed_outcome = claimed_outcome]

\* The ranges callers declare: two of the game's tests, a range with
\* max = min - 1 and a reversed range.
Ranges == { <<1, 6>>, <<0, 1>>, <<1, 0>>, <<6, 1>> }

\* The outcomes callers claim.
ClaimedOutcomes == 1..4

\* The drand values handed to verify_outcome: a value of the game's tests
\* and the value of round 17598.
DrandValues ==
    { PyIntOf(555555555),
      PyIntBase16Wide(KNOWN_DRAND_ROUNDS[17598].randomness).val }

\* The rows of the real-data table: arguments and the validity expected.
RealDataRow(round_num, claim, min_val, max_val, expect_valid) ==
    [round_num |-> round_num, claim |-> claim, min_val |-> min_val,
     max_val |-> max_val, expect_valid |-> expect_valid]

RealDataCases ==
    { RealDataRow(17598, 2, 1, 6, TRUE),
      RealDataRow(17598, 3, 1, 6, FALSE),
      RealDataRow(17598, 7, 2, 12, TRUE),
      RealDataRow(17598, 70, 1, 100, TRUE),
      RealDataRow(17598, 1, 0, 1, FALSE),
      RealDataRow(17598, 45, 0, 51, TRUE) }

\* The last completed verifier call (op = "" before the first).
NoVerifyCall ==
    [op |-> "", round_num |-> 0, drand_value |-> PyIntOf(0), claimed_outcome |-> 0,
     min_val |-> 0, max_val |-> 0, result |-> NoVerifyResult]

\* ------------------------------------------- conversion and derivation
\* DrandClientSync.randomness_to_int with a result of any size: drop a
\* leading "0x", then int(.., 16).
DrandClientSync_randomness_to_int(randomness_hex) ==
    IF Len(randomness_hex) >= 2 /\ randomness_hex[1] = "0" /\ randomness_hex[2] = "x"
    THEN PyIntBase16Wide(SubSeq(randomness_hex, 3, Len(randomness_hex)))
    ELSE PyIntBase16Wide(randomness_hex)

\* The magnitude mag plus one.
MagInc(mag) ==
    LET n == Len(mag)
        runs == {j \in 0..n : \A i \in (n - j + 1)..n : mag[i] = 15}
        k == CHOOSE j \in runs : \A j2 \in runs : j2 <= j
    IN  IF k = n THEN <<1>> \o [i \in 1..n |-> 0]
        ELSE [i \in 1..n |->
                IF i < n - k THEN mag[i] ELSE IF i = n - k THEN mag[i] + 1 ELSE 0]

\* Python's a >> 8: the floor of a / 256.
PyShiftRight8(a) ==
    LET n == Len(a.mag)
        high == IF n > 2 THEN SubSeq(a.mag, 1, n - 2) ELSE <<>>
        exact == \A i \in 1..n : i > n - 2 => a.mag[i] = 0
    IN  IF ~a.neg THEN PyInt(FALSE, high)
        ELSE IF exact THEN PyInt(TRUE, high)
        ELSE PyInt(TRUE, MagInc(high))

\* A derive_rolls_from_drand that takes both rolls from the same bits.
DiceGame_derive_rolls_unshifted(drand_value) ==
    LET player1_roll == PyMod(drand_value, 6) + 1
        player2_roll == PyMod(drand_value, 6) + 1
    IN  [player1_roll |-> player1_roll,
         player2_roll |-> player2_roll,
         winner |-> IF player1_roll > player2_roll THEN 1
                    ELSE IF player2_roll > player1_roll THEN 2
                    ELSE 1]

\* DiceGame.derive_rolls_from_drand on a Python int of any size (the
\* message text is left out).
DiceGame_derive_rolls_from_drand(drand_value) ==
    LET player1_roll == PyMod(drand_value, 6) + 1
        player2_roll == PyMod(PyShiftRight8(drand_value), 6) + 1
    IN  [player1_roll |-> player1_roll,
         player2_roll |-> player2_roll,
         winner |-> IF player1_roll > player2_roll THEN 1
                    ELSE IF player2_roll > player1_roll THEN 2
                    ELSE 1]

\* demo_real_drand.calculate_outcome (ok FALSE: ZeroDivisionError)
demo_real_drand_calculate_outcome(drand_value, min_val, max_val) ==
    LET range_size == max_val - min_val + 1
    IN  IF range_size = 0 THEN [ok |-> FALSE, val |-> 0]
        ELSE [ok |-> TRUE, val |-> PyMod(drand_value, range_size) + min_val]

\* The values handed to the three copies of calculate_outcome: a negative
\* one, one of the game's tests and the value of round 17598.
CopyValues ==
    { PyIntOf(-7), PyIntOf(12345),
      PyIntBase16Wide(KNOWN_DRAND_ROUNDS[17598].randomness).val }

\* The values secrets.randbits(256) may return.
RandBits == { PyIntOf(12345), PyIntBase16Wide(Repeat("f", 64)).val }

\* game.fetch_drand_value on the table of the verifier it is given (or of
\* the one it constructs): the stored randomness through int(.., 16), and
\* for a round the table does not hold the value randbits drawn by
\* secrets.randbits(256).
fetch_drand_value(rounds, drand_round, randbits) ==
    LET round_data == get_round(rounds, drand_round)
    IN  IF Len(round_data) > 0
        THEN PyIntBase16Wide(round_data[1].randomness)
        ELSE [ok |-> TRUE, val |-> randbits]

\* The hex digit strings handed to the conversions: short ones, one of
\* mixed case, and the 64 digits of round 17598.
HexBodies ==
    { <<"7">>, <<"f", "f">>, <<"1", "0", "5">>, <<"a", "B", "c">>,
      <<"2", "e", "0", "a", "3", "b", "b", "f", "f", "6", "0", "0", "0", "1", "1", "a",
        "0", "a", "e", "2", "1", "c", "9", "2", "e", "8", "d", "4", "c", "9", "9", "d",
        "d", "a", "9", "4", "d", "a", "0", "6", "2", "8", "4", "d", "f", "e", "9", "0",
        "0", "3", "2", "b", "a", "e", "3", "f", "7", "e", "b", "c", "6", "3", "3", "9">> }

\* The forms in which a caller may write the digit string h.
RandomnessForms(h) ==
    { h,
      <<"0", "x">> \o h,
      <<"0", "0">> \o h,
      <<"0", "x", "0", "0">> \o h,
      <<"0", "X">> \o h,
      <<"-">> \o h,
      <<"+">> \o h,
      <<" ">> \o h,
      h \o <<" ">>,
      <<h[1], "_">> \o Tail(h),
      <<"0", "x", "_">> \o h,
      <<"0", "x", "0", "x">> \o h,
      <<"0", "x", "-">> \o h,
      h \o <<"g">> }

\* The strings handed to the conversions: the forms of the digit strings,
\* 65 digits, the empty string and a bare prefix.
RandomnessInputs ==
    UNION { RandomnessForms(h) : h \in HexBodies }
        \cup { Repeat("f", 65), <<>>, <<"0", "x">> }

\* The drand values handed to the derivations: values with rolls 1:1, 4:2
\* and 3:4, values of the game's tests, the value of round 17598, the
\* largest 256-bit value and a negative value.
DeriveValues ==
    { PyIntOf(0), PyIntOf(261), PyIntOf(770), PyIntOf(12345), PyIntOf(555555555),
      PyIntBase16Wide(KNOWN_DRAND_ROUNDS[17598].randomness).val,
      PyIntBase16Wide(Repeat("f", 64)).val,
      PyIntOf(-7) }

\* The ranges handed to the derivations: those of the tests, a range of
\* one value, one below zero, one with max = min - 1 and a reversed one.
DeriveRanges ==
    { <<1, 6>>, <<2, 12>>, <<0, 1>>, <<1, 100>>, <<0, 51>>, <<3, 3>>, <<-2, 2>>,
      <<1, 0>>, <<6, 1>> }

NoConversion == [ok |-> FALSE, val |-> PyIntOf(0)]
NoOutcome == [ok |-> FALSE, val |-> 0]

\* The last completed call (op = "" before the first): the string or the
\* value and range it was given, and what each implementation returned.
NoDeriveCall ==
    [op |-> "", text |-> <<>>, drand_value |-> PyIntOf(0), min_val |-> 0,
     max_val |-> 0, verifier |-> NoConversion, sync |-> NoConversion,
     game_outcome |-> NoOutcome, verifier_outcome |-> NoOutcome,
     demo_outcome |-> NoOutcome,
     rolls |-> [player1_roll |-> 0, player2_roll |-> 0, winner |-> 0]]

\* The derivations run again and again: two values of
\* demonstrate_determinism and the value of round 17598, in two ranges.
RepeatedValues ==
    { PyIntOf(123456789), PyIntOf(555555555),
      PyIntBase16Wide(KNOWN_DRAND_ROUNDS[17598].randomness).val }
RepeatedRanges == { <<1, 6>>, <<0, 1>> }

\* One run of every repeated derivation: calculate_outcome per value and
\* range, derive_rolls_from_drand per value.
FirstRuns ==
    [range |-> [a \in RepeatedValues \X RepeatedRanges |->
                    calculate_outcome(a[1], a[2][1], a[2][2])],
     rolls |-> [v \in RepeatedValues |-> DiceGame_derive_rolls_from_drand(v)]]

\* ------------------------------------------------------ MatchmakingQueue
MaxJoins == 3   \* add_player calls in one behaviour
MaxRaceJoins == 2   \* add_player calls in one behaviour of interleaved callers

\* The players and game types of the queue's callers.
QueueAddresses == {"0xA", "0xB"}
GameTypes == {"dice", "coin"}

\* PendingPlayer: joined_at is the number of the add_player call, standing
\* for datetime.now(); bet_id and amount are carried, never read.
PendingPlayer(player_address, game_type, joined_at) ==
    [player_address |-> player_address, bet_id |-> joined_at, amount |-> 1,
     game_type |-> game_type, joined_at |-> joined_at]

\* MatchmakingQueue.add_player
add_player(q, player_address, game_type, joined_at) ==
    Append(q, PendingPlayer(player_address, game_type, joined_at))

\* list.pop(i)
ListPop(q, i) == [k \in 1..(Len(q) - 1) |-> IF k < i THEN q[k] ELSE q[k + 1]]

\* A find_match that takes the newest waiting player of the game type.
find_match_newest(q, game_type) ==
    LET hits == {i \in 1..Len(q) : q[i].game_type = game_type}
    IN  IF hits = {} THEN [found |-> <<>>, queue |-> q]
        ELSE LET i == CHOOSE i \in hits : \A j \in hits : j <= i
             IN  [found |-> <<q[i]>>, queue |-> ListPop(q, i)]

\* MatchmakingQueue.find_match: found is <<>> for None, <<player>> for a
\* match; i is the first index the loop stops at.
find_match(q, game_type) ==
    LET hits == {i \in 1..Len(q) : q[i].game_type = game_type}
    IN  IF hits = {} THEN [found |-> <<>>, queue |-> q]
        ELSE LET i == CHOOSE i \in hits : \A j \in hits : i <= j
             IN  [found |-> <<q[i]>>, queue |-> ListPop(q, i)]

\* A remove_player that drops the player's first entry only.
remove_player_first_entry(q, player_address) ==
    LET hits == {i \in 1..Len(q) : q[i].player_address = player_address}
    IN  IF hits = {} THEN q
        ELSE ListPop(q, CHOOSE i \in hits : \A j \in hits : i <= j)

\* MatchmakingQueue.remove_player
remove_player(q, player_address) ==
    SelectSeq(q, LAMBDA p : p.player_address # player_address)

NoQueueCall == [op |-> "", game_type |-> "", player_address |-> "", found |-> <<>>]

\* ------------------------------------- MatchmakingQueue, interleaved calls
\* One caller's call in progress.  pc is the statement it is at; player is
\* <<entry>> or <<>>; attached says whether the list the call loaded is
\* still the object bound to self.queue, and list is that object's content
\* once remove_player has rebound self.queue to a new list; i is the index
\* of enumerate; new_queue is the list the comprehension built.
NoQueueWork ==
    [pc |-> "idle", op |-> "", game_type |-> "", player_address |-> "",
     player |-> <<>>, attached |-> TRUE, list |-> <<>>, i |-> 0,
     new_queue |-> <<>>]

\* History the queue does not hold, entries named by their joined_at: the
\* entries find_match calls returned, those returned a second time, those
\* returned by a call whose pop removed another entry, those returned
\* after a completed remove_player had withdrawn them, whether a pop
\* raised IndexError, the entries pop removed, the entries completed
\* remove_player calls withdrew, and the entries whose append completed.
NoQueueHistory ==
    [returned |-> {}, returned_again |-> {}, returned_not_popped |-> {},
     returned_withdrawn |-> {}, index_error |-> FALSE,
     popped |-> {}, withdrawn |-> {}, appended |-> {}]

\* The list a call in progress works on.
ListOf(w, q) == IF w.attached THEN q ELSE w.list

\* ------------------------------------------------- get_matchmaking_queue
\* The module global (0 = None, otherwise the number of the queue object)
\* and the waiting-player count of each MatchmakingQueue constructed.
NoSingleton == [global |-> 0, queues |-> <<>>]

\* One caller's get_matchmaking_queue call: ret is the object returned
\* (0: none yet).
NoGet == [pc |-> "idle", ret |-> 0]

\* ------------------------------------------------- DrandVerifier objects
\* The objects a program constructs.
VerifierNames == {"v1", "v2"}

\* No object yet.  An object's known_rounds attribute is a reference: the
\* name of the dict it is bound to.  added is history the object does not
\* hold: the round data passed to add_round on this object.
NoVerifiers == [v \in {} |-> [known_rounds |-> "", added |-> <<>>]]

\* DrandVerifier.__init__: self.known_rounds = KNOWN_DRAND_ROUNDS binds the
\* attribute to the module's dict, the one dict there is.
DrandVerifier_init == [known_rounds |-> "KNOWN_DRAND_ROUNDS",
                       added |-> [n \in {} |-> <<>>]]

\* The dict a reference names: rounds is the module's dict as it is now.
DictOf(ref, rounds) == IF ref = "KNOWN_DRAND_ROUNDS" THEN rounds ELSE [n \in {} |-> <<>>]

\* The last completed call on an object: ret is <<>> for None, <<data>>
\* for round data.
NoInstanceCall == [op |-> "", self |-> "", round_num |-> 0, ret |-> <<>>]

\* ------------------------------------------------------- outcome counts
\* analyze_distribution counts the outcomes of num_trials drand values.
\* Here the values are consecutive: periods * (max - min + 1) of them,
\* from a multiple of the range size on.  The ranges, the multiples (times
\* 16^BlockShifts) and the numbers of periods counted:
BlockRanges == { <<1, 6>>, <<0, 1>>, <<3, 3>>, <<-2, 2>>, <<2, 12>> }
BlockIndexes == {0, 1, 1000003}
BlockShifts == {0, 60}
BlockPeriods == {1, 2}

\* outcomes is the defaultdict of the count; strays counts the calls that
\* raised or returned a value outside min_val..max_val.
NoBlock == [pc |-> "idle", min_val |-> 0, max_val |-> 0, periods |-> 0,
            drand_value |-> PyIntOf(0), trials |-> 0,
            outcomes |-> [o \in {} |-> 0], strays |-> 0]

\* ------------------------------------------------------- wait_for_round
max_wait == 600   \* seconds

\* The rounds waited for and the check_interval values passed (5 is the
\* default).
TargetRounds == {17598}
CheckIntervals == {0, 5, 200, 600}

\* A wait_for_round call.  has_sleep says whether the httpx module the
\* program runs with has an attribute sleep (httpx documents none);
\* outcome is "returned", or the exception the call ended with.
NoWait == [pc |-> "idle", target_round |-> 0, check_interval |-> 0,
           has_sleep |-> FALSE, elapsed |-> 0, outcome |-> ""]

\* ------------------------------------------------------- groups of state
\* The state of the protocol and demo packages; play_game touches none of it.
protocolVars == <<seeds, seedCall, creators, known_rounds, verifyCall,
                  deriveCall, firstRuns, queue, queueCall, joined,
                  workers, queueHistory, singleton, getters, verifiers,
                  instanceCall, block, waiter>>

\* The state of the derivation calls and of the matchmaking queue.
deriveVars == <<deriveCall, firstRuns>>
queueVars == <<queue, queueCall, joined>>

\* The state of the interleaved queue calls, of the queue accessor, of the
\* verifier objects, of the outcome count and of wait_for_round.
raceVars == <<workers, queueHistory>>
accessorVars == <<singleton, getters>>
instanceVars == <<verifiers, instanceCall>>
lateVars == <<raceVars, accessorVars, instanceVars, block, waiter>>

\* The state play_game works on.
settleVars == <<ledger, beacon, req, txs>>

vars == <<ledger, beacon, req, txs, seeds, seedCall, creators, known_rounds,
          verifyCall, deriveCall, firstRuns, queue, queueCall, joined,
          workers, queueHistory, singleton, getters, verifiers, instanceCall,
          block, waiter>>

\* waiting is history the contract does not hold: the requests that were
\* in flight on the bet when its settlement was accepted.
NoBet == [exists |-> FALSE, status |-> Pending, drand_round |-> 0,
          drand_value |-> 0, winner |-> 0, waiting |-> {}]

NoRolls == [player1_roll |-> 0, player2_roll |-> 0, winner |-> 0]

NoResp == [code |-> 0, status |-> "", player1_roll |-> 0, player2_roll |-> 0,
           winner_is_player |-> 0, tx_hash |-> 0]

NoTx == [sent |-> FALSE, bet_id |-> 0, drand_round |-> 0, drand_value |-> 0,
         outcome |-> "none"]

\* A request before it is made.  bet_status is the status get_bet returned
\* (-1: none read).  player_address is the address the request carried.
\* The fields after resp are history the handler does
\* not hold: the beacon's latest round when the request arrived (kept
\* until the beacon step), whether the round that step got was already
\* published at arrival, the number of beacon fetches and ledger calls
\* made, and whether the beacon step failed.
NoReq == [pc |-> "idle", player_address |-> <<>>, bet_id |-> 0, bet_status |-> -1,
          drand_round |-> 0, drand_value |-> 0, game_result |-> NoRolls,
          resp |-> NoResp,
          round_at_request |-> 0, round_was_published |-> FALSE,
          fetches |-> 0, calls |-> 0, drand_failed |-> FALSE]

Init ==
    /\ ledger = [b \in Bets |-> NoBet]
    /\ beacon = <<>>
    /\ req = [r \in Reqs |-> NoReq]
    /\ txs = [r \in Reqs |-> NoTx]
    /\ seeds = NoSeeds
    /\ seedCall = NoSeedCall
    /\ creators = [t \in Callers |-> NoCreate]
    /\ known_rounds = KNOWN_DRAND_ROUNDS
    /\ verifyCall = NoVerifyCall
    /\ deriveCall = NoDeriveCall
    /\ firstRuns = FirstRuns
    /\ queue = <<>>
    /\ queueCall = NoQueueCall
    /\ joined = 0
    /\ workers = [t \in Callers |-> NoQueueWork]
    /\ queueHistory = NoQueueHistory
    /\ singleton = NoSingleton
    /\ getters = [t \in Callers |-> NoGet]
    /\ verifiers = NoVerifiers
    /\ instanceCall = NoInstanceCall
    /\ block = NoBlock
    /\ waiter = NoWait

InFlight(r) == req[r].pc \notin {"idle", "done"}

\* raise HTTPException(status_code = code)
HttpError(rq, code) ==
    [rq EXCEPT !.pc = "done", !.resp = [NoResp EXCEPT !.code = code, !.status = "error"]]

\* ---------------------------------------------------- the ledger (contract)
\* The contract calls the frontends make: placeBet, joinBet, cancel.
LedgerPlaceBet(b) ==
    /\ ~ledger[b].exists
    /\ ledger' = [ledger EXCEPT ![b] = [NoBet EXCEPT !.exists = TRUE, !.status = Pending]]
    /\ UNCHANGED <<beacon, req, txs, protocolVars>>

LedgerJoinBet(b) ==
    /\ ledger[b].exists /\ ledger[b].status = Pending
    /\ ledger' = [ledger EXCEPT ![b].status = Active]
    /\ UNCHANGED <<beacon, req, txs, protocolVars>>

LedgerCancel(b) ==
    /\ ledger[b].exists /\ ledger[b].status \in {Pending, Active}
    /\ ledger' = [ledger EXCEPT ![b].status = Canceled]
    /\ UNCHANGED <<beacon, req, txs, protocolVars>>

\* settleWagerWithDrand as the contract executes it: accepted only for an
\* Active bet; the winner is derived on-chain from drand_value by the
\* formula of derive_rolls_from_drand.
LedgerAccepts(l, args) ==
    /\ args.bet_id \in DOMAIN l
    /\ l[args.bet_id].exists
    /\ l[args.bet_id].status = Active

LedgerSettle(l, args) ==
    [l EXCEPT ![args.bet_id] =
        [@ EXCEPT !.status = Settled,
                  !.drand_round = args.drand_round,
                  !.drand_value = args.drand_value,
                  !.winner = derive_rolls_from_drand(args.drand_value).winner]]

\* ------------------------------------------------------------- the beacon
\* drand publishes the next round.
BeaconPublish(h) ==
    /\ Len(beacon) < MaxRound
    /\ beacon' = Append(beacon, h)
    /\ UNCHANGED <<ledger, req, txs, protocolVars>>

\* ------------------------------------------------------- play_game (settle)
\* A status check that refuses only a canceled bet.
BetIsNotCanceled(bet) == bet.status # 3

\* if bet["status"] != 1 the request is refused.
BetIsActive(bet) == bet.status = 1

\* DrandClient.get_latest on a reachable feed: the newest published round.
get_latest(chain) == [round |-> Len(chain), randomness |-> chain[Len(chain)]]

\* A beacon failure that is swallowed: the handler goes on with the
\* values it has.
OnDrandErrorGoOn(rq) == [rq EXCEPT !.pc = "settle"]

\* except Exception around the beacon step: 503.
OnDrandError(rq) == HttpError(rq, 503)

\* Arguments that name the beacon's newest round at the time of the call
\* in place of the round the request fetched.
SettleArgsNewestRound(rq) ==
    [bet_id |-> rq.bet_id, drand_round |-> Len(beacon), drand_value |-> rq.drand_value]

\* The arguments play_game passes to settle_wager_with_drand.
SettleArgs(rq) ==
    [bet_id |-> rq.bet_id, drand_round |-> rq.drand_round, drand_value |-> rq.drand_value]

\* What a ledger call may come to: the transaction is mined and accepted,
\* mined and reverted (receipt status 0), the call raises before anything
\* is mined, or the transaction is accepted but waiting for its receipt
\* raises.
TxOutcomes == {"mined", "reverted", "raised", "mined_raised"}

\* The dict settle_wager_with_drand returns for a mined transaction.
TxResult(r, outcome) ==
    [tx_hash |-> r, status |-> IF outcome = "mined" THEN "success" ELSE "failed"]

\* return GameResultResponse(status = "settled", ...)
GameResultResponse(rq, tx_result) ==
    [rq EXCEPT !.pc = "done",
               !.resp = [code |-> 200, status |-> "settled",
                         player1_roll |-> rq.game_result.player1_roll,
                         player2_roll |-> rq.game_result.player2_roll,
                         winner_is_player |-> rq.game_result.winner,
                         tx_hash |-> tx_result.tx_hash]]

\* Address validation, get_bet and the status check: up to the first point
\* where the handler depends on another system again.  rpc_ok = FALSE is
\* get_bet raising (the node is unreachable, or the contract reverts on an
\* unknown id); for an id the contract does not know and does not revert on
\* it returns the zero record, whose status is 0.
PlayStart(r, address, b, rpc_ok) ==
    /\ req[r].pc = "idle"
    /\ \A q \in Reqs : q < r => req[q].pc # "idle"
    /\ LET rq == [req[r] EXCEPT !.player_address = address, !.bet_id = b]
           bet == ledger[b]
           seen == [rq EXCEPT !.bet_status = bet.status]
       IN  req' = [req EXCEPT ![r] =
                IF ~validate_eth_address(address) THEN HttpError(rq, 400)
                ELSE IF ~rpc_ok THEN HttpError(rq, 404)
                ELSE IF ~BetIsActive(bet) THEN HttpError(seen, 400)
                ELSE [seen EXCEPT !.pc = "fetch", !.round_at_request = Len(beacon)]]
    /\ UNCHANGED <<ledger, beacon, txs, protocolVars>>

\* get_latest, randomness_to_int and derive_rolls_from_drand.  feed_ok =
\* FALSE is any exception of the step: the feed is unreachable or answers
\* badly, or asyncio.run refuses to start because the caller is already
\* inside a running event loop.
PlayFetchDrand(r, feed_ok) ==
    /\ req[r].pc = "fetch"
    /\ LET rq == [req[r] EXCEPT !.fetches = @ + 1, !.round_at_request = 0]
           data == get_latest(beacon)
           conv == randomness_to_int(data.randomness)
           failed == ~feed_ok \/ Len(beacon) = 0 \/ ~conv.ok
       IN  req' = [req EXCEPT ![r] =
                IF failed THEN OnDrandError([rq EXCEPT !.drand_failed = TRUE])
                ELSE [rq EXCEPT !.pc = "settle",
                                !.drand_round = data.round,
                                !.round_was_published =
                                    data.round <= req[r].round_at_request,
                                !.drand_value = conv.val,
                                !.game_result = derive_rolls_from_drand(conv.val)]]
    /\ UNCHANGED <<ledger, beacon, txs, protocolVars>>

\* settle_wager_with_drand and the response.
PlaySettle(r, outcome) ==
    /\ req[r].pc = "settle"
    /\ LET args == SettleArgs(req[r])
           accepted == outcome \in {"mined", "mined_raised"}
           rq == [req[r] EXCEPT !.calls = @ + 1]
           others == {q \in Reqs \ {r} : InFlight(q) /\ req[q].bet_id = args.bet_id}
       IN  /\ accepted => LedgerAccepts(ledger, args)
           /\ ledger' = IF accepted
                        THEN [LedgerSettle(ledger, args) EXCEPT ![args.bet_id].waiting = others]
                        ELSE ledger
           /\ txs' = [txs EXCEPT ![r] =
                        [sent |-> TRUE, bet_id |-> args.bet_id,
                         drand_round |-> args.drand_round,
                         drand_value |-> args.drand_value, outcome |-> outcome]]
           /\ req' = [req EXCEPT ![r] =
                        IF outcome \in {"raised", "mined_raised"}
                        THEN HttpError(rq, 500)
                        ELSE GameResultResponse(rq, TxResult(r, outcome))]
    /\ UNCHANGED <<beacon, protocolVars>>

\* ---------------------------------------------------------- specifications
Next ==
    \/ \E b \in Bets : LedgerPlaceBet(b)
    \/ \E b \in Bets : LedgerJoinBet(b)
    \/ \E b \in Bets : LedgerCancel(b)
    \/ \E h \in RandomnessValues : BeaconPublish(h)
    \/ \E r \in Reqs, a \in PlayerAddresses, b \in Bets, rpc_ok \in BOOLEAN :
            PlayStart(r, a, b, rpc_ok)
    \/ \E r \in Reqs, feed_ok \in BOOLEAN : PlayFetchDrand(r, feed_ok)
    \/ \E r \in Reqs, o \in TxOutcomes : PlaySettle(r, o)

Spec == Init /\ [][Next]_vars

\* One operation at a time: a ledger operation or a new request begins only
\* when no request is in flight.
Quiet == \A q \in Reqs : ~InFlight(q)

NextSeq ==
    \/ Quiet /\ \E b \in Bets : LedgerPlaceBet(b)
    \/ Quiet /\ \E b \in Bets : LedgerJoinBet(b)
    \/ Quiet /\ \E b \in Bets : LedgerCancel(b)
    \/ \E h \in RandomnessValues : BeaconPublish(h)
    \/ Quiet /\ \E r \in Reqs, a \in PlayerAddresses, b \in Bets, rpc_ok \in BOOLEAN :
            PlayStart(r, a, b, rpc_ok)
    \/ \E r \in Reqs, feed_ok \in BOOLEAN : PlayFetchDrand(r, feed_ok)
    \/ \E r \in Reqs, o \in TxOutcomes : PlaySettle(r, o)

SpecSeq == Init /\ [][NextSeq]_vars

\* ------------------------------------------------- SeedManager operations
SeedCallOf(op, seat, seed_hex, r) ==
    [op |-> op, seat |-> seat, seed_hex |-> seed_hex,
     raised |-> r.raised, ret |-> r.ret, ok |-> r.ok]

\* A whole create_seed call; raw is the value token_bytes returns.
CreateSeed(seat, raw) ==
    /\ LET r == create_seed(seeds, seat, raw)
       IN  /\ seeds' = r.store
           /\ seedCall' = SeedCallOf("create_seed", seat, <<>>, r)
    /\ UNCHANGED <<settleVars, lateVars, deriveVars, queueVars, creators, known_rounds, verifyCall>>

RevealSeed(seat) ==
    /\ LET r == reveal_seed(seeds, seat)
       IN  /\ seeds' = r.store
           /\ seedCall' = SeedCallOf("reveal_seed", seat, <<>>, r)
    /\ UNCHANGED <<settleVars, lateVars, deriveVars, queueVars, creators, known_rounds, verifyCall>>

VerifyCommitment(seat, seed_hex) ==
    /\ LET r == verify_commitment(seeds, seat, seed_hex)
       IN  /\ seeds' = r.store
           /\ seedCall' = SeedCallOf("verify_commitment", seat, seed_hex, r)
    /\ UNCHANGED <<settleVars, lateVars, deriveVars, queueVars, creators, known_rounds, verifyCall>>

\* The calls of one caller, one after the other.
NextSeed ==
    \/ \E seat \in Seats, raw \in RawSeeds : CreateSeed(seat, raw)
    \/ \E seat \in Seats : RevealSeed(seat)
    \/ \E seat \in Seats, seed_hex \in SeedHexArgs(seeds) : VerifyCommitment(seat, seed_hex)

SpecSeed == Init /\ [][NextSeed]_vars

\* create_seed statement by statement, for callers that run at the same
\* time on the one module-level manager.  The membership test:
CreateCheck(t, seat) ==
    /\ creators[t].pc = "idle"
    /\ creators' = [creators EXCEPT ![t] =
            IF seat \in DOMAIN seeds
            THEN [@ EXCEPT !.pc = "done", !.seat = seat, !.raised = "ValueError"]
            ELSE [@ EXCEPT !.pc = "checked", !.seat = seat]]
    /\ UNCHANGED <<settleVars, lateVars, deriveVars, queueVars, seeds, seedCall, known_rounds, verifyCall>>

\* token_bytes and the hash of its value:
CreateGenerate(t, raw) ==
    /\ creators[t].pc = "checked"
    /\ creators' = [creators EXCEPT ![t] =
            [@ EXCEPT !.pc = "generated", !.raw = raw,
                      !.commitment = Sha256HexDigest(raw)]]
    /\ UNCHANGED <<settleVars, lateVars, deriveVars, queueVars, seeds, seedCall, known_rounds, verifyCall>>

\* the assignment to the dictionary, and the return:
CreateStore(t) ==
    /\ creators[t].pc = "generated"
    /\ seeds' = DictPut(seeds, creators[t].seat,
                        <<creators[t].raw, creators[t].commitment>>)
    /\ creators' = [creators EXCEPT ![t].pc = "done"]
    /\ UNCHANGED <<settleVars, lateVars, deriveVars, queueVars, seedCall, known_rounds, verifyCall>>

NextSeedRace ==
    \/ \E t \in Callers, seat \in Seats : CreateCheck(t, seat)
    \/ \E t \in Callers, raw \in RawSeeds : CreateGenerate(t, raw)
    \/ \E t \in Callers : CreateStore(t)

SpecSeedRace == Init /\ [][NextSeedRace]_vars

\* ----------------------------------------------- DrandVerifier operations
VerifyCallOf(op, round_num, drand_value, claimed_outcome, range, result) ==
    [op |-> op, round_num |-> round_num, drand_value |-> drand_value,
     claimed_outcome |-> claimed_outcome, min_val |-> range[1],
     max_val |-> range[2], result |-> result]

AddRound(round_num, randomness, timestamp) ==
    /\ known_rounds' = add_round(known_rounds, round_num, randomness, timestamp)
    /\ verifyCall' = [NoVerifyCall EXCEPT !.op = "add_round", !.round_num = round_num]
    /\ UNCHANGED <<settleVars, lateVars, deriveVars, queueVars, seeds, seedCall, creators>>

VerifyGame(round_num, claimed_outcome, range) ==
    /\ verifyCall' = VerifyCallOf("verify_game", round_num, PyIntOf(0),
                                  claimed_outcome, range,
                                  verify_game(known_rounds, round_num,
                                              claimed_outcome, range[1], range[2]))
    /\ UNCHANGED <<settleVars, lateVars, deriveVars, queueVars, seeds, seedCall, creators, known_rounds>>

VerifyOutcome(drand_value, claimed_outcome, range) ==
    /\ verifyCall' = VerifyCallOf("verify_outcome", 0, drand_value,
                                  claimed_outcome, range,
                                  verify_outcome(drand_value, claimed_outcome,
                                                 range[1], range[2]))
    /\ UNCHANGED <<settleVars, lateVars, deriveVars, queueVars, seeds, seedCall, creators, known_rounds>>

NextVerify ==
    \/ \E n \in AddedRounds, h \in AddedRandomness, ts \in Timestamps : AddRound(n, h, ts)
    \/ \E row \in RealDataCases :
            VerifyGame(row.round_num, row.claim, <<row.min_val, row.max_val>>)
    \/ \E n \in RoundNums, c \in ClaimedOutcomes, range \in Ranges : VerifyGame(n, c, range)
    \/ \E v \in DrandValues, c \in ClaimedOutcomes, range \in Ranges :
            VerifyOutcome(v, c, range)

SpecVerify == Init /\ [][NextVerify]_vars

\* ---------------------------------------- conversions and derivations
\* Both randomness_to_int implementations on the same string.
RandomnessToInt(randomness_hex) ==
    /\ deriveCall' = [NoDeriveCall EXCEPT
            !.op = "randomness_to_int",
            !.text = randomness_hex,
            !.verifier = DrandVerifier_randomness_to_int(randomness_hex),
            !.sync = DrandClientSync_randomness_to_int(randomness_hex)]
    /\ UNCHANGED <<settleVars, lateVars, seeds, seedCall, creators, known_rounds, verifyCall,
                   firstRuns, queueVars>>

\* The calculate_outcome implementations on the same arguments.
CalculateOutcome(drand_value, range) ==
    /\ deriveCall' = [NoDeriveCall EXCEPT
            !.op = "calculate_outcome",
            !.drand_value = drand_value,
            !.min_val = range[1],
            !.max_val = range[2],
            !.game_outcome = calculate_outcome(drand_value, range[1], range[2]),
            !.verifier_outcome =
                DrandVerifier_calculate_outcome(drand_value, range[1], range[2]),
            !.demo_outcome =
                demo_real_drand_calculate_outcome(drand_value, range[1], range[2])]
    /\ UNCHANGED <<settleVars, lateVars, seeds, seedCall, creators, known_rounds, verifyCall,
                   firstRuns, queueVars>>

DeriveRolls(drand_value) ==
    /\ deriveCall' = [NoDeriveCall EXCEPT
            !.op = "derive_rolls_from_drand",
            !.drand_value = drand_value,
            !.rolls = DiceGame_derive_rolls_from_drand(drand_value)]
    /\ UNCHANGED <<settleVars, lateVars, seeds, seedCall, creators, known_rounds, verifyCall,
                   firstRuns, queueVars>>

NextDerive ==
    \/ \E h \in RandomnessInputs : RandomnessToInt(h)
    \/ \E v \in DeriveValues, range \in DeriveRanges : CalculateOutcome(v, range)
    \/ \E v \in DeriveValues : DeriveRolls(v)

SpecDerive == Init /\ [][NextDerive]_vars

\* ------------------------------------------- MatchmakingQueue operations
AddPlayer(player_address, game_type) ==
    /\ joined < MaxJoins
    /\ joined' = joined + 1
    /\ queue' = add_player(queue, player_address, game_type, joined + 1)
    /\ queueCall' = [NoQueueCall EXCEPT !.op = "add_player",
                                        !.player_address = player_address,
                                        !.game_type = game_type]
    /\ UNCHANGED <<settleVars, lateVars, seeds, seedCall, creators, known_rounds, verifyCall,
                   deriveVars>>

FindMatch(game_type) ==
    /\ LET r == find_match(queue, game_type)
       IN  /\ queue' = r.queue
           /\ queueCall' = [NoQueueCall EXCEPT !.op = "find_match",
                                               !.game_type = game_type,
                                               !.found = r.found]
    /\ UNCHANGED <<settleVars, lateVars, seeds, seedCall, creators, known_rounds, verifyCall,
                   deriveVars, joined>>

RemovePlayer(player_address) ==
    /\ queue' = remove_player(queue, player_address)
    /\ queueCall' = [NoQueueCall EXCEPT !.op = "remove_player",
                                        !.player_address = player_address]
    /\ UNCHANGED <<settleVars, lateVars, seeds, seedCall, creators, known_rounds, verifyCall,
                   deriveVars, joined>>

\* The calls of one caller, one after the other.
NextQueue ==
    \/ \E a \in QueueAddresses, g \in GameTypes : AddPlayer(a, g)
    \/ \E g \in GameTypes : FindMatch(g)
    \/ \E a \in QueueAddresses : RemovePlayer(a)

SpecQueue == Init /\ [][NextQueue]_vars

\* --------------------------- MatchmakingQueue, statement by statement
\* The class takes no lock: callers on different threads interleave
\* between the statements below.  Everything but the queue, the counter
\* and the calls in progress stays as it is.
RaceFrame ==
    UNCHANGED <<settleVars, seeds, seedCall, creators, known_rounds, verifyCall,
                deriveVars, queueCall, accessorVars, instanceVars, block, waiter>>

\* add_player up to the call of append: the entry is built (datetime.now())
\* and self.queue is loaded.
AddPlayerBuild(t, player_address, game_type) ==
    /\ workers[t].pc = "idle"
    /\ joined < MaxRaceJoins
    /\ joined' = joined + 1
    /\ workers' = [workers EXCEPT ![t] =
            [NoQueueWork EXCEPT !.pc = "append", !.op = "add_player",
                                !.player_address = player_address,
                                !.game_type = game_type,
                                !.player = <<PendingPlayer(player_address, game_type,
                                                           joined + 1)>>]]
    /\ UNCHANGED <<queue, queueHistory>>
    /\ RaceFrame

\* list.append on the list that was loaded.
AddPlayerAppend(t) ==
    /\ workers[t].pc = "append"
    /\ queue' = IF workers[t].attached THEN Append(queue, workers[t].player[1])
                ELSE queue
    /\ queueHistory' = [queueHistory EXCEPT
            !.appended = @ \cup {workers[t].player[1].joined_at}]
    /\ workers' = [workers EXCEPT ![t] = NoQueueWork]
    /\ UNCHANGED joined
    /\ RaceFrame

\* find_match: enumerate(self.queue) is set up.
FindMatchLoad(t, game_type) ==
    /\ workers[t].pc = "idle"
    /\ workers' = [workers EXCEPT ![t] =
            [NoQueueWork EXCEPT !.pc = "iter", !.op = "find_match",
                                !.game_type = game_type]]
    /\ UNCHANGED <<queue, joined, queueHistory>>
    /\ RaceFrame

\* One turn of the for loop: the next entry of the list and the test of
\* its game_type; the loop ends with return None.
FindMatchNext(t) ==
    /\ workers[t].pc = "iter"
    /\ LET w == workers[t]
           list == ListOf(w, queue)
       IN  workers' = [workers EXCEPT ![t] =
                IF w.i >= Len(list) THEN NoQueueWork
                ELSE IF list[w.i + 1].game_type = w.game_type
                     THEN [w EXCEPT !.pc = "pop", !.player = <<list[w.i + 1]>>]
                     ELSE [w EXCEPT !.i = w.i + 1]]
    /\ UNCHANGED <<queue, joined, queueHistory>>
    /\ RaceFrame

\* self.queue.pop(i) on the list bound to self.queue now, and return player.
FindMatchPop(t) ==
    /\ workers[t].pc = "pop"
    /\ LET w == workers[t]
           e == w.player[1].joined_at
       IN  IF w.i >= Len(queue)
           THEN /\ queueHistory' = [queueHistory EXCEPT !.index_error = TRUE]
                /\ UNCHANGED queue
           ELSE /\ queue' = ListPop(queue, w.i + 1)
                /\ queueHistory' = [queueHistory EXCEPT
                        !.returned = @ \cup {e},
                        !.returned_again =
                            IF e \in queueHistory.returned THEN @ \cup {e} ELSE @,
                        !.returned_not_popped =
                            IF queue[w.i + 1] # w.player[1] THEN @ \cup {e} ELSE @,
                        !.returned_withdrawn =
                            IF e \in queueHistory.withdrawn THEN @ \cup {e} ELSE @,
                        !.popped = @ \cup {queue[w.i + 1].joined_at}]
    /\ workers' = [workers EXCEPT ![t] = NoQueueWork]
    /\ UNCHANGED joined
    /\ RaceFrame

\* remove_player: the list comprehension over self.queue.
RemovePlayerFilter(t, player_address) ==
    /\ workers[t].pc = "idle"
    /\ workers' = [workers EXCEPT ![t] =
            [NoQueueWork EXCEPT !.pc = "store", !.op = "remove_player",
                                !.player_address = player_address,
                                !.new_queue = remove_player(queue, player_address)]]
    /\ UNCHANGED <<queue, joined, queueHistory>>
    /\ RaceFrame

\* self.queue = <the new list>: calls that loaded the old list keep it.
RemovePlayerStore(t) ==
    /\ workers[t].pc = "store"
    /\ queue' = workers[t].new_queue
    /\ workers' = [u \in Callers |->
            IF u = t THEN NoQueueWork
            ELSE IF workers[u].pc \in {"append", "iter"} /\ workers[u].attached
                 THEN [workers[u] EXCEPT !.attached = FALSE, !.list = queue]
                 ELSE workers[u]]
    /\ queueHistory' = [queueHistory EXCEPT
            !.withdrawn = @ \cup
                {queue[k].joined_at : k \in {k \in 1..Len(queue) :
                    queue[k].player_address = workers[t].player_address}}]
    /\ UNCHANGED joined
    /\ RaceFrame

NextQueueRace ==
    \/ \E t \in Callers, a \in QueueAddresses, g \in GameTypes : AddPlayerBuild(t, a, g)
    \/ \E t \in Callers : AddPlayerAppend(t)
    \/ \E t \in Callers, g \in GameTypes : FindMatchLoad(t, g)
    \/ \E t \in Callers : FindMatchNext(t)
    \/ \E t \in Callers : FindMatchPop(t)
    \/ \E t \in Callers, a \in QueueAddresses : RemovePlayerFilter(t, a)
    \/ \E t \in Callers : RemovePlayerStore(t)

SpecQueueRace == Init /\ [][NextQueueRace]_vars

\* -------------------------------------- several DrandVerifier objects
InstanceFrame ==
    UNCHANGED <<settleVars, seeds, seedCall, creators, verifyCall, deriveVars,
                queueVars, raceVars, accessorVars, block, waiter>>

\* v = DrandVerifier()
Construct(v) ==
    /\ v \notin DOMAIN verifiers
    /\ verifiers' = DictPut(verifiers, v, DrandVerifier_init)
    /\ instanceCall' = [NoInstanceCall EXCEPT !.op = "__init__", !.self = v]
    /\ UNCHANGED known_rounds
    /\ InstanceFrame

\* v.add_round(round_num, randomness, timestamp)
InstanceAddRound(v, round_num, randomness, timestamp) ==
    /\ v \in DOMAIN verifiers
    /\ known_rounds' = add_round(DictOf(verifiers[v].known_rounds, known_rounds),
                                 round_num, randomness, timestamp)
    /\ verifiers' = [verifiers EXCEPT ![v].added =
            add_round(@, round_num, randomness, timestamp)]
    /\ instanceCall' = [NoInstanceCall EXCEPT !.op = "add_round", !.self = v,
                                              !.round_num = round_num]
    /\ InstanceFrame

\* v.get_round(round_num)
InstanceGetRound(v, round_num) ==
    /\ v \in DOMAIN verifiers
    /\ instanceCall' = [NoInstanceCall EXCEPT
            !.op = "get_round", !.self = v, !.round_num = round_num,
            !.ret = get_round(DictOf(verifiers[v].known_rounds, known_rounds),
                              round_num)]
    /\ UNCHANGED <<known_rounds, verifiers>>
    /\ InstanceFrame

NextInstances ==
    \/ \E v \in VerifierNames : Construct(v)
    \/ \E v \in VerifierNames, n \in AddedRounds, h \in AddedRandomness,
          ts \in Timestamps : InstanceAddRound(v, n, h, ts)
    \/ \E v \in VerifierNames, n \in RoundNums : InstanceGetRound(v, n)

SpecInstances == Init /\ [][NextInstances]_vars

\* ------------------------------------- outcomes of consecutive values
BlockFrame ==
    UNCHANGED <<settleVars, seeds, seedCall, creators, known_rounds, verifyCall,
                deriveVars, queueVars, raceVars, accessorVars, instanceVars, waiter>>

\* The count starts at the value k * (max - min + 1) * 16^z.
BlockStart(range, k, z, periods) ==
    /\ block.pc = "idle"
    /\ LET n == range[2] - range[1] + 1
       IN  block' = [NoBlock EXCEPT
                !.pc = "count", !.min_val = range[1], !.max_val = range[2],
                !.periods = periods,
                !.drand_value = PyInt(FALSE, NatDigits(k * n) \o Repeat(0, z)),
                !.outcomes = [o \in range[1]..range[2] |-> 0]]
    /\ BlockFrame

\* One trial: outcome = calculate_outcome(drand_value, min_val, max_val);
\* outcomes[outcome] += 1; the next trial takes the next value.
BlockTrial ==
    /\ block.pc = "count"
    /\ LET n == block.max_val - block.min_val + 1
           outcome == calculate_outcome(block.drand_value, block.min_val, block.max_val)
           counted == outcome.ok /\ outcome.val \in DOMAIN block.outcomes
       IN  block' = [block EXCEPT
                !.outcomes = IF counted THEN [@ EXCEPT ![outcome.val] = @ + 1] ELSE @,
                !.strays = IF counted THEN @ ELSE @ + 1,
                !.drand_value = PyInt(FALSE, MagInc(block.drand_value.mag)),
                !.trials = @ + 1,
                !.pc = IF block.trials + 1 = block.periods * n THEN "counted"
                       ELSE "count"]
    /\ BlockFrame

NextBlocks ==
    \/ \E range \in BlockRanges, k \in BlockIndexes, z \in BlockShifts,
          periods \in BlockPeriods : BlockStart(range, k, z, periods)
    \/ BlockTrial

SpecBlocks == Init /\ [][NextBlocks]_vars

\* --------------------------------------------- fetch, derive and verify
\* drand_value = fetch_drand_value(drand_round, verifier)
FetchDrandValue(drand_round, randbits) ==
    /\ LET fetched == fetch_drand_value(known_rounds, drand_round, randbits)
       IN  verifyCall' = [NoVerifyCall EXCEPT
                !.op = "fetch_drand_value",
                !.round_num = drand_round,
                !.drand_value = fetched.val,
                !.result = [NoVerifyResult EXCEPT
                    !.raised = IF fetched.ok THEN "" ELSE "ValueError"]]
    /\ UNCHANGED <<settleVars, lateVars, deriveVars, queueVars, seeds, seedCall,
                   creators, known_rounds>>

\* test_auto_verify: fetch_drand_value, calculate_outcome, verify_game on
\* the outcome.
AutoVerify(drand_round, range, randbits) ==
    /\ LET fetched == fetch_drand_value(known_rounds, drand_round, randbits)
           outcome == calculate_outcome(fetched.val, range[1], range[2])
       IN  verifyCall' =
             IF ~fetched.ok
             THEN VerifyCallOf("test_auto_verify", drand_round, PyIntOf(0), 0, range,
                               [NoVerifyResult EXCEPT !.raised = "ValueError"])
             ELSE IF ~outcome.ok
             THEN VerifyCallOf("test_auto_verify", drand_round, fetched.val, 0, range,
                               [NoVerifyResult EXCEPT !.raised = "ZeroDivisionError"])
             ELSE VerifyCallOf("test_auto_verify", drand_round, fetched.val,
                               outcome.val, range,
                               verify_game(known_rounds, drand_round, outcome.val,
                                           range[1], range[2]))
    /\ UNCHANGED <<settleVars, lateVars, deriveVars, queueVars, seeds, seedCall,
                   creators, known_rounds>>

NextAuto ==
    \/ \E h \in AddedRandomness, ts \in Timestamps : AddRound(13631, h, ts)
    \/ \E n \in RoundNums, b \in RandBits : FetchDrandValue(n, b)
    \/ \E n \in RoundNums, range \in Ranges, b \in RandBits : AutoVerify(n, range, b)
    \/ \E v \in CopyValues, range \in Ranges : CalculateOutcome(v, range)

SpecAuto == Init /\ [][NextAuto]_vars

\* ------------------------------------------------- get_matchmaking_queue
\* The accessor takes no lock either; its statements, caller by caller.
AccessorFrame ==
    UNCHANGED <<settleVars, seeds, seedCall, creators, known_rounds, verifyCall,
                deriveVars, queueVars, raceVars, instanceVars, block, waiter>>

\* if _matchmaking_queue is None:
GetCheck(t) ==
    /\ getters[t].pc = "idle"
    /\ getters' = [getters EXCEPT ![t].pc =
            IF singleton.global = 0 THEN "construct" ELSE "return"]
    /\ UNCHANGED singleton
    /\ AccessorFrame

\* _matchmaking_queue = MatchmakingQueue()
GetConstruct(t) ==
    /\ getters[t].pc = "construct"
    /\ singleton' = [global |-> Len(singleton.queues) + 1,
                     queues |-> Append(singleton.queues, 0)]
    /\ getters' = [getters EXCEPT ![t].pc = "return"]
    /\ AccessorFrame

\* return _matchmaking_queue
GetReturn(t) ==
    /\ getters[t].pc = "return"
    /\ getters' = [getters EXCEPT ![t] = [pc |-> "idle", ret |-> singleton.global]]
    /\ UNCHANGED singleton
    /\ AccessorFrame

\* The caller adds a player to the queue it was given.
AddThrough(t) ==
    /\ getters[t].pc = "idle"
    /\ getters[t].ret # 0
    /\ singleton.queues[getters[t].ret] < MaxRaceJoins
    /\ singleton' = [singleton EXCEPT !.queues[getters[t].ret] = @ + 1]
    /\ UNCHANGED getters
    /\ AccessorFrame

NextAccessor ==
    \/ \E t \in Callers : GetCheck(t)
    \/ \E t \in Callers : GetConstruct(t)
    \/ \E t \in Callers : GetReturn(t)
    \/ \E t \in Callers : AddThrough(t)

SpecAccessor == Init /\ [][NextAccessor]_vars

\* ------------------------------------------------------- wait_for_round
WaitFrame ==
    UNCHANGED <<settleVars, seeds, seedCall, creators, known_rounds, verifyCall,
                deriveVars, queueVars, raceVars, accessorVars, instanceVars, block>>

\* await client.wait_for_round(target_round, check_interval)
WaitStart(target_round, check_interval, has_sleep) ==
    /\ waiter.pc = "idle"
    /\ waiter' = [NoWait EXCEPT !.pc = "while", !.target_round = target_round,
                                !.check_interval = check_interval,
                                !.has_sleep = has_sleep]
    /\ WaitFrame

\* while elapsed < max_wait: ... raise TimeoutError
WaitTest ==
    /\ waiter.pc = "while"
    /\ waiter' = IF waiter.elapsed < max_wait
                 THEN [waiter EXCEPT !.pc = "try"]
                 ELSE [waiter EXCEPT !.pc = "done", !.outcome = "TimeoutError"]
    /\ WaitFrame

\* data = await self.get_by_round(target_round); return data.  available
\* = FALSE: get_by_round raised (the round is not out yet, the feed is
\* down) and the bare except takes over.
WaitFetch(available) ==
    /\ waiter.pc = "try"
    /\ waiter' = IF available
                 THEN [waiter EXCEPT !.pc = "done", !.outcome = "returned"]
                 ELSE [waiter EXCEPT !.pc = "except"]
    /\ WaitFrame

\* await httpx.AsyncClient().aclose(); await httpx.sleep(check_interval);
\* elapsed += check_interval.  Without httpx.sleep the attribute lookup
\* raises AttributeError inside the handler and ends the call.
WaitSleep ==
    /\ waiter.pc = "except"
    /\ waiter' = IF waiter.has_sleep
                 THEN [waiter EXCEPT !.pc = "while",
                                     !.elapsed = @ + waiter.check_interval]
                 ELSE [waiter EXCEPT !.pc = "done", !.outcome = "AttributeError"]
    /\ WaitFrame

NextWait ==
    \/ \E n \in TargetRounds, c \in CheckIntervals, has_sleep \in BOOLEAN :
            WaitStart(n, c, has_sleep)
    \/ WaitTest
    \/ \E available \in BOOLEAN : WaitFetch(available)
    \/ WaitSleep

\* The call keeps running: the event loop resumes it after every await.
SpecWait == Init /\ [][NextWait]_vars /\ WF_vars(NextWait)

\* ------------------------------------- derivations among other operations
\* The repeated derivations, with seed store, round table and queue
\* operations between them.
NextRepeat ==
    \/ \E v \in RepeatedValues, range \in RepeatedRanges : CalculateOutcome(v, range)
    \/ \E v \in RepeatedValues : DeriveRolls(v)
    \/ \E raw \in RawSeeds : CreateSeed("PlayerA", raw)
    \/ \E h \in AddedRandomness, ts \in Timestamps : AddRound(13631, h, ts)
    \/ AddPlayer("0xA", "dice")
    \/ FindMatch("dice")

SpecRepeat == Init /\ [][NextRepeat]_vars

\* ------------------------------------------------------------------ claims
Done(r) == req[r].pc = "done"
ReportsSettled(r) == Done(r) /\ req[r].resp.status = "settled"

\* C1: of two settle requests that run concurrently on the same Active
\* bet, only one performs the ledger call: a request that was in flight on
\* a bet when another request's settlement of it was accepted makes no
\* ledger call.
C1_ConcurrentSettleCallsLedgerOnce ==
    \A b \in Bets : \A q \in ledger[b].waiting : ~txs[q].sent

\* C2: a settle call made after a successful one on the same bet (it finds
\* the bet Settled) is a no-op success: it answers 200 with the rolls and
\* winner of the first call and makes no ledger call of its own.
C2_SecondSettleIsNoOpSuccess ==
    \A r1, r2 \in Reqs :
        ( /\ r1 # r2
          /\ ReportsSettled(r1) /\ txs[r1].outcome = "mined"
          /\ Done(r2)
          /\ req[r2].bet_id = req[r1].bet_id
          /\ req[r2].bet_status = Settled )
        => /\ req[r2].resp.code = 200
           /\ req[r2].resp.status = "settled"
           /\ req[r2].resp.player1_roll = req[r1].resp.player1_roll
           /\ req[r2].resp.player2_roll = req[r1].resp.player2_roll
           /\ req[r2].resp.winner_is_player = req[r1].resp.winner_is_player
           /\ ~txs[r2].sent

\* C3: a request answers "settled" only if its settle transaction was
\* accepted by the ledger.
C3_SettledOnlyAfterLedgerAck ==
    \A r \in Reqs : ReportsSettled(r) => txs[r].outcome = "mined"

\* C4: a request whose ledger call failed (the call raised, or the
\* transaction was reverted) answers with the retryable error 500 and
\* reports no settled outcome.
C4_LedgerFailureIsRetryableError ==
    \A r \in Reqs :
        txs[r].outcome \in {"reverted", "raised"}
        => /\ Done(r)
           /\ req[r].resp.code = 500
           /\ req[r].resp.status # "settled"
           /\ req[r].resp.winner_is_player = 0

\* C5: the beacon round a request settles with was not yet published when
\* the request arrived.
C5_SettleUsesUnpublishedRound ==
    \A r \in Reqs : req[r].drand_round > 0 => ~req[r].round_was_published

\* C6: a request that reads its bet as Pending, Settled or Canceled is
\* refused with 400 and has made no beacon fetch and no ledger call.
C6_SettleOnlyFromActive ==
    \A r \in Reqs :
        req[r].bet_status \in {Pending, Settled, Canceled}
        => /\ Done(r)
           /\ req[r].resp.code = 400
           /\ req[r].fetches = 0
           /\ req[r].calls = 0
           /\ ~txs[r].sent

C6_Witness ==
    \E r \in Reqs : Done(r) /\ req[r].bet_status = Settled /\ req[r].resp.code = 400

\* C7: a request that answers "settled" consulted the beacon once; the
\* round and value it passed to the ledger are the round it fetched and the
\* integer of that round's randomness on the beacon, and the rolls and
\* winner it returns are those derived from the value it passed.
C7_SettleUsesItsOwnRound ==
    \A r \in Reqs :
        ReportsSettled(r)
        => /\ req[r].fetches = 1
           /\ req[r].calls = 1
           /\ txs[r].sent
           /\ txs[r].bet_id = req[r].bet_id
           /\ txs[r].drand_round = req[r].drand_round
           /\ txs[r].drand_round \in 1..Len(beacon)
           /\ randomness_to_int(beacon[txs[r].drand_round])
                = [ok |-> TRUE, val |-> txs[r].drand_value]
           /\ LET rolls == derive_rolls_from_drand(txs[r].drand_value)
              IN  /\ req[r].resp.player1_roll = rolls.player1_roll
                  /\ req[r].resp.player2_roll = rolls.player2_roll
                  /\ req[r].resp.winner_is_player = rolls.winner

C7_Witness ==
    \E r \in Reqs :
        /\ ReportsSettled(r)
        /\ txs[r].outcome = "mined"
        /\ Len(beacon) > req[r].drand_round

\* C8: a request never answers "settled" with a winner other than the one
\* the ledger holds for the settled bet.
C8_SuccessCarriesLedgerWinner ==
    \A r \in Reqs :
        (ReportsSettled(r) /\ ledger[req[r].bet_id].status = Settled)
        => req[r].resp.winner_is_player = ledger[req[r].bet_id].winner

\* C9: a request whose beacon step failed answers 503 and has made no
\* ledger call, and the step that fails leaves the ledger as it was.
C9_BeaconFailureIsRetryable ==
    /\ [](\A r \in Reqs :
            req[r].drand_failed
            => /\ Done(r)
               /\ req[r].resp.code = 503
               /\ req[r].calls = 0
               /\ ~txs[r].sent)
    /\ [][\A r \in Reqs :
            (~req[r].drand_failed /\ req'[r].drand_failed)
            => (ledger' = ledger /\ txs' = txs)]_vars

C9_Witness ==
    \E r \in Reqs :
        /\ req[r].drand_failed
        /\ Done(r)
        /\ ledger[req[r].bet_id].status = Active

StatusStep(old, new) ==
    \/ new = old
    \/ ~old.exists /\ new.exists /\ new.status = Pending
    \/ old.exists /\ new.exists /\ old.status = Pending /\ new.status \in {Active, Canceled}
    \/ old.exists /\ new.exists /\ old.status = Active /\ new.status \in {Settled, Canceled}

Terminal(bet) == bet.exists /\ bet.status \in {Settled, Canceled}

\* C10: with operations run one at a time, a bet's status only moves
\* Pending -> Active -> Settled, Pending -> Active -> Canceled or
\* Pending -> Canceled, and once it is Settled or Canceled no step changes
\* the bet or hands the ledger a settle call for it.
C10_StatusMonotonic ==
    [][\A b \in Bets :
        /\ StatusStep(ledger[b], ledger'[b])
        /\ Terminal(ledger[b])
           => /\ ledger'[b] = ledger[b]
              /\ \A r \in Reqs : txs'[r] # txs[r] => txs'[r].bet_id # b]_vars

C10_Witness ==
    \E r \in Reqs :
        /\ Done(r)
        /\ req[r].bet_status = Canceled
        /\ Terminal(ledger[req[r].bet_id])

\* A step that completes a SeedManager call of the given kind.
SeedCallStep(op) == seedCall' # seedCall /\ seedCall'.op = op

\* C11: create_seed on a seat that already holds a seed raises ValueError
\* (the duplicate-slot error), and the store after the failed call equals
\* the store before it.
C11_DuplicateCreateFails ==
    [][ (SeedCallStep("create_seed") /\ seedCall'.seat \in DOMAIN seeds)
            => (seedCall'.raised = "ValueError" /\ seeds' = seeds) ]_vars

C11_Witness ==
    /\ seedCall.op = "create_seed"
    /\ seedCall.raised = "ValueError"
    /\ seedCall.seat \in DOMAIN seeds

\* C12: for every seat whose create_seed succeeded, at any later point,
\* verify_commitment(seat, reveal_seed(seat)) returns True: in every
\* reachable store the two calls compose to True, and a verify_commitment
\* call that was given the revealed seed returned True.
C12_RoundTrip ==
    /\ \A seat \in DOMAIN seeds :
          LET revealed == reveal_seed(seeds, seat)
              verified == verify_commitment(seeds, seat, revealed.ret)
          IN  revealed.raised = "" /\ verified.raised = "" /\ verified.ok
    /\ ( /\ seedCall.op = "verify_commitment"
         /\ seedCall.seat \in DOMAIN seeds
         /\ seedCall.seed_hex = BytesHex(seeds[seedCall.seat][1]) )
          => (seedCall.raised = "" /\ seedCall.ok)

C12_Witness ==
    /\ DOMAIN seeds = Seats
    /\ seedCall.op = "verify_commitment"
    /\ seedCall.seed_hex = BytesHex(seeds[seedCall.seat][1])
    /\ seedCall.ok

\* C13: for a seat that holds a seed, verify_commitment returns False and
\* raises nothing for every seed_hex other than the seat's revealed seed,
\* strings that are not hex or have an odd number of digits included.
C13_WrongSeedIsFalseNeverRaises ==
    ( /\ seedCall.op = "verify_commitment"
      /\ seedCall.seat \in DOMAIN seeds
      /\ seedCall.seed_hex # BytesHex(seeds[seedCall.seat][1]) )
        => (seedCall.raised = "" /\ ~seedCall.ok)

\* C14: verify_commitment on a seat without a seed returns False for every
\* seed_hex, hex or not, raises nothing and leaves the store unchanged.
C14_UnknownSeatIsFalse ==
    [][ (SeedCallStep("verify_commitment") /\ seedCall'.seat \notin DOMAIN seeds)
            => (seedCall'.raised = "" /\ ~seedCall'.ok /\ seeds' = seeds) ]_vars

C14_Witness ==
    /\ seedCall.op = "verify_commitment"
    /\ seedCall.seat \notin DOMAIN seeds
    /\ seedCall.seed_hex = <<"z", "z">>
    /\ seedCall.raised = ""
    /\ ~seedCall.ok

\* C15: a seat holds at most one (seed, commitment) pair, the commitment
\* is the hash of the seed, and once the pair exists no create_seed,
\* reveal_seed or verify_commitment call changes or removes it.
C15_PairIsImmutable ==
    /\ [](\A seat \in DOMAIN seeds :
            seeds[seat][2] = Sha256HexDigest(seeds[seat][1]))
    /\ [][ \A seat \in DOMAIN seeds :
            seat \in DOMAIN seeds' /\ seeds'[seat] = seeds[seat] ]_vars

C15_Witness ==
    /\ DOMAIN seeds = Seats
    /\ seedCall.op = "create_seed"
    /\ seedCall.raised = "ValueError"

\* C16: create_seed is atomic per seat: of two calls for the same seat
\* whose statements interleave, exactly one succeeds and the other raises
\* ValueError, and the commitment returned to a successful caller is the
\* one the store holds.
C16_CreateIsAtomicPerSeat ==
    /\ \A t \in Callers :
          (creators[t].pc = "done" /\ creators[t].raised = "")
            => ( /\ creators[t].seat \in DOMAIN seeds
                 /\ seeds[creators[t].seat][2] = creators[t].commitment )
    /\ \A t1, t2 \in Callers :
          ( /\ t1 # t2
            /\ creators[t1].pc = "done" /\ creators[t2].pc = "done"
            /\ creators[t1].seat = creators[t2].seat )
            => ((creators[t1].raised = "") # (creators[t2].raised = ""))

\* C17: reveal_seed on a seat that holds a seed changes nothing in the
\* store and returns the hex of the stored seed, and so does the call
\* after it: any number of calls return the same seed.
C17_RevealIsIdempotent ==
    [][ (SeedCallStep("reveal_seed") /\ seedCall'.seat \in DOMAIN seeds)
            => ( /\ seeds' = seeds
                 /\ seedCall'.raised = ""
                 /\ seedCall'.ret = BytesHex(seeds[seedCall'.seat][1])
                 /\ reveal_seed(seeds', seedCall'.seat).raised = ""
                 /\ reveal_seed(seeds', seedCall'.seat).ret = seedCall'.ret ) ]_vars

C17_Witness ==
    /\ seedCall.op = "reveal_seed"
    /\ seedCall.raised = ""
    /\ Len(seedCall.ret) = 2 * SeedBytes
    /\ seedCall.ret = BytesHex(seeds[seedCall.seat][1])

\* C18: reveal_seed on a seat without a seed raises KeyError (the
\* unknown-slot error), returns no seed and leaves the store unchanged.
C18_RevealUnknownFails ==
    [][ (SeedCallStep("reveal_seed") /\ seedCall'.seat \notin DOMAIN seeds)
            => ( /\ seedCall'.raised = "KeyError"
                 /\ seedCall'.ret = <<>>
                 /\ seeds' = seeds ) ]_vars

C18_Witness ==
    /\ seedCall.op = "reveal_seed"
    /\ seedCall.raised = "KeyError"
    /\ seedCall.seat \notin DOMAIN seeds

\* A step that completes a verifier call of the given kind.
VerifyCallStep(op) == verifyCall' # verifyCall /\ verifyCall'.op = op

\* C19: for a round the table holds, wherever int(randomness, 16) and the
\* range formula have a value, verify_game returns valid = True exactly
\* when the claimed outcome equals calculate_outcome(int(randomness, 16),
\* min, max), its actual_outcome is that value, and the call leaves the
\* table unchanged; verify_outcome(drand_value, claimed, min, max) is True
\* exactly when the claim equals the same formula's value.
C19_VerifyRecomputesOutcome ==
    [][ /\ (VerifyCallStep("verify_game") /\ verifyCall'.round_num \in DOMAIN known_rounds)
            => LET call == verifyCall'
                   drand_int == PyIntBase16Wide(known_rounds[call.round_num].randomness)
                   expected == calculate_outcome(drand_int.val, call.min_val, call.max_val)
               IN  /\ known_rounds' = known_rounds
                   /\ (drand_int.ok /\ expected.ok)
                        => ( /\ call.result.raised = ""
                             /\ call.result.actual_outcome = <<expected.val>>
                             /\ call.result.valid = (call.claimed_outcome = expected.val) )
        /\ VerifyCallStep("verify_outcome")
            => LET call == verifyCall'
                   expected == DrandVerifier_calculate_outcome(
                                   call.drand_value, call.min_val, call.max_val)
               IN  /\ known_rounds' = known_rounds
                   /\ expected.ok
                        => ( /\ call.result.raised = ""
                             /\ call.result.valid = (call.claimed_outcome = expected.val) )
      ]_vars

C19_Witness ==
    /\ verifyCall.op = "verify_game"
    /\ verifyCall.round_num = 13631
    /\ verifyCall.min_val = 1 /\ verifyCall.max_val = 6
    /\ verifyCall.claimed_outcome = 4
    /\ verifyCall.result.valid
    /\ verifyCall.result.actual_outcome = <<4>>

\* C20: verify_game for a round the table does not hold returns valid =
\* False with a not-found error and no actual outcome, raises nothing and
\* does not add the round to the table.
C20_UnknownRoundIsNotFound ==
    [][ (VerifyCallStep("verify_game") /\ verifyCall'.round_num \notin DOMAIN known_rounds)
            => ( /\ verifyCall'.result.raised = ""
                 /\ ~verifyCall'.result.valid
                 /\ verifyCall'.result.error = "not found"
                 /\ verifyCall'.result.actual_outcome = <<>>
                 /\ known_rounds' = known_rounds
                 /\ verifyCall'.round_num \notin DOMAIN known_rounds' ) ]_vars

C20_Witness ==
    /\ verifyCall.op = "verify_game"
    /\ verifyCall.round_num = 8739
    /\ verifyCall.result.error = "not found"
    /\ ~verifyCall.result.valid
    /\ 8739 \notin DOMAIN known_rounds

\* The table still holds round 17598 as it was pre-seeded.
Round17598AsSeeded ==
    /\ 17598 \in DOMAIN known_rounds
    /\ known_rounds[17598] = KNOWN_DRAND_ROUNDS[17598]

\* The last call was verify_game on the arguments of the table row.
VerifiedRow(row) ==
    /\ verifyCall.op = "verify_game"
    /\ verifyCall.round_num = row.round_num
    /\ verifyCall.claimed_outcome = row.claim
    /\ verifyCall.min_val = row.min_val
    /\ verifyCall.max_val = row.max_val

\* C21: for the pre-seeded round 17598 and the range [1,6] the derived
\* outcome is 2; verify_game(17598, 2, 1, 6) returns valid = True and
\* verify_game(17598, 3, 1, 6) returns valid = False with actual_outcome 2.
C21_Round17598Example ==
    /\ DrandVerifier_calculate_outcome(
            DrandVerifier_randomness_to_int(KNOWN_DRAND_ROUNDS[17598].randomness).val,
            1, 6) = [ok |-> TRUE, val |-> 2]
    /\ (Round17598AsSeeded /\ VerifiedRow(RealDataRow(17598, 2, 1, 6, TRUE)))
          => ( /\ verifyCall.result.raised = ""
               /\ verifyCall.result.valid
               /\ verifyCall.result.actual_outcome = <<2>> )
    /\ (Round17598AsSeeded /\ VerifiedRow(RealDataRow(17598, 3, 1, 6, FALSE)))
          => ( /\ verifyCall.result.raised = ""
               /\ ~verifyCall.result.valid
               /\ verifyCall.result.actual_outcome = <<2>> )

C21_Witness ==
    /\ Round17598AsSeeded
    /\ VerifiedRow(RealDataRow(17598, 3, 1, 6, FALSE))
    /\ ~verifyCall.result.valid
    /\ verifyCall.result.actual_outcome = <<2>>

\* C22 as stated: for the pre-seeded round 17598, verify_game returns the
\* validity the real-data table expects in every row, the row (claim 1 in
\* [0,1], invalid) included.
C22_RealDataTableAsExpected ==
    \A row \in RealDataCases :
        (Round17598AsSeeded /\ VerifiedRow(row))
            => (verifyCall.result.raised = ""
                    /\ verifyCall.result.valid = row.expect_valid)

\* C23: a round is immutable once it is in the table and is never deleted:
\* no add_round, get_round or verify_game call changes the randomness
\* stored for a round number or removes it.
C23_CachedRoundIsImmutable ==
    [][ \A n \in DOMAIN known_rounds :
            /\ n \in DOMAIN known_rounds'
            /\ known_rounds'[n].randomness = known_rounds[n].randomness ]_vars

\* A string of hex digits and nothing else.
PlainHex(s) == Len(s) > 0 /\ \A i \in 1..Len(s) : s[i] \in HexDigits

\* C24: for every hex digit string h, both randomness_to_int
\* implementations return the same integer for h, for "0x" + h and for h
\* with zero digits in front, and whenever both return for the same input
\* they return the same integer.
C24_ToIntegerNormalises ==
    deriveCall.op = "randomness_to_int"
        => /\ (deriveCall.verifier.ok /\ deriveCall.sync.ok)
                => deriveCall.verifier.val = deriveCall.sync.val
           /\ PlainHex(deriveCall.text)
                => /\ deriveCall.verifier.ok
                   /\ deriveCall.sync = deriveCall.verifier
                   /\ \A other \in { <<"0", "x">> \o deriveCall.text,
                                     <<"0">> \o deriveCall.text,
                                     <<"0", "0">> \o deriveCall.text,
                                     <<"0", "x", "0", "0">> \o deriveCall.text } :
                        /\ DrandVerifier_randomness_to_int(other) = deriveCall.verifier
                        /\ DrandClientSync_randomness_to_int(other) = deriveCall.verifier

C24_Witness ==
    /\ deriveCall.op = "randomness_to_int"
    /\ Len(deriveCall.text) = 64
    /\ PlainHex(deriveCall.text)
    /\ deriveCall.verifier.ok
    /\ Len(deriveCall.verifier.val.mag) = 64
    /\ DrandClientSync_randomness_to_int(<<"0", "x">> \o deriveCall.text)
            = deriveCall.verifier

\* An optional "0x", then 1 to 64 hex digits.
PlainRandomness(s) ==
    LET body == IF Len(s) >= 2 /\ s[1] = "0" /\ s[2] = "x"
                THEN SubSeq(s, 3, Len(s)) ELSE s
    IN  PlainHex(body) /\ Len(body) <= 64

\* C25: randomness_to_int raises on every input that is not a plain hex
\* digit string with an optional 0x prefix, and every value it returns is
\* in [0, 2^256): no negative number, and no sign, blank, digit separator
\* or more than 64 digits is accepted.
C25_ToIntegerRejectsMalformed ==
    deriveCall.op = "randomness_to_int"
        => \A r \in {deriveCall.verifier, deriveCall.sync} :
              r.ok => ( /\ PlainRandomness(deriveCall.text)
                        /\ ~r.val.neg
                        /\ Len(r.val.mag) <= 64 )

\* The value of a short magnitude as a machine-sized integer.
RECURSIVE MagValue(_)
MagValue(mag) ==
    IF Len(mag) = 0 THEN 0
    ELSE 16 * MagValue(SubSeq(mag, 1, Len(mag) - 1)) + mag[Len(mag)]

\* C26: for min <= max and drand_value >= 0, calculate_outcome (in game.py
\* and in DrandVerifier) returns (drand_value mod (max - min + 1)) + min,
\* a value in [min, max].
C26_DeriveRangeInRange ==
    ( /\ deriveCall.op = "calculate_outcome"
      /\ deriveCall.min_val <= deriveCall.max_val
      /\ ~deriveCall.drand_value.neg )
        => /\ deriveCall.game_outcome.ok
           /\ deriveCall.verifier_outcome = deriveCall.game_outcome
           /\ deriveCall.min_val <= deriveCall.game_outcome.val
           /\ deriveCall.game_outcome.val <= deriveCall.max_val
           /\ Len(deriveCall.drand_value.mag) <= 7
                => deriveCall.game_outcome.val =
                        (MagValue(deriveCall.drand_value.mag)
                            % (deriveCall.max_val - deriveCall.min_val + 1))
                        + deriveCall.min_val

C26_Witness ==
    /\ deriveCall.op = "calculate_outcome"
    /\ Len(deriveCall.drand_value.mag) = 64
    /\ deriveCall.min_val = 1 /\ deriveCall.max_val = 100
    /\ deriveCall.game_outcome = [ok |-> TRUE, val |-> 70]

\* C27: calculate_outcome with max < min fails for every drand_value; it
\* returns no outcome for an empty range, max = min - 1 and max < min - 1
\* alike.
C27_DeriveRangeRejectsEmptyRange ==
    (deriveCall.op = "calculate_outcome" /\ deriveCall.max_val < deriveCall.min_val)
        => (~deriveCall.game_outcome.ok /\ ~deriveCall.verifier_outcome.ok)

\* C28: for every drand_value in [0, 2^256), derive_rolls_from_drand
\* returns player1_roll = (drand_value mod 6) + 1 and player2_roll =
\* ((drand_value >> 8) mod 6) + 1, both in 1..6, and winner 1 exactly when
\* player1_roll >= player2_roll, winner 2 exactly when player2_roll >
\* player1_roll.
C28_DeriveTwoPlayer ==
    ( /\ deriveCall.op = "derive_rolls_from_drand"
      /\ ~deriveCall.drand_value.neg
      /\ Len(deriveCall.drand_value.mag) <= 64 )
        => LET rolls == deriveCall.rolls
               v == deriveCall.drand_value
           IN  /\ rolls.player1_roll \in 1..6
               /\ rolls.player2_roll \in 1..6
               /\ rolls.winner \in {1, 2}
               /\ (rolls.winner = 1) = (rolls.player1_roll >= rolls.player2_roll)
               /\ (rolls.winner = 2) = (rolls.player2_roll > rolls.player1_roll)
               /\ rolls.player1_roll = MagMod(v.mag, 6) + 1
               /\ rolls.player2_roll =
                    MagMod(SubSeq(v.mag, 1, Len(v.mag) - 2), 6) + 1
               /\ Len(v.mag) <= 7
                    => /\ rolls.player1_roll = (MagValue(v.mag) % 6) + 1
                       /\ rolls.player2_roll = ((MagValue(v.mag) \div 256) % 6) + 1
                       /\ rolls = derive_rolls_from_drand(MagValue(v.mag))

C28_Witness ==
    /\ deriveCall.op = "derive_rolls_from_drand"
    /\ Len(deriveCall.drand_value.mag) = 64
    /\ deriveCall.rolls = [player1_roll |-> 4, player2_roll |-> 4, winner |-> 1]

C30_FindMatchIsFifo ==
    [][ ((queueCall' # queueCall \/ queue' # queue) /\ queueCall'.op = "find_match")
         => LET same == {i \in 1..Len(queue) :
                            queue[i].game_type = queueCall'.game_type}
            IN  IF same = {}
                THEN queueCall'.found = <<>> /\ queue' = queue
                ELSE /\ Len(queueCall'.found) = 1
                     /\ \E i \in same :
                          /\ queueCall'.found[1] = queue[i]
                          /\ \A j \in same : queue[i].joined_at <= queue[j].joined_at
                          /\ queue' = SelectSeq(queue, LAMBDA p : p # queue[i]) ]_vars

C30_Witness ==
    /\ queueCall.op = "find_match"
    /\ Len(queueCall.found) = 1
    /\ Len(queue) = 2
    /\ queueCall.found[1].joined_at = 2
    /\ queue[1].joined_at = 1
    /\ queue[2].joined_at = 3
    /\ queue[2].game_type = queueCall.found[1].game_type

\* An address of 40 hex digits after an optional 0x.
WellFormedAddress(a) ==
    LET body == IF Len(a) >= 2 /\ a[1] = "0" /\ a[2] \in {"x", "X"}
                THEN SubSeq(a, 3, Len(a)) ELSE a
    IN  Len(body) = 40 /\ PlainHex(body)

PositionIn(q, p) == CHOOSE i \in 1..Len(q) : q[i] = p

\* C31: remove_player(player_address) removes every entry of that player
\* and nothing else: afterwards no entry of the address is queued, the
\* entries of other players are all still queued in their relative order,
\* and with no entry of the address the queue is unchanged.
C31_RemovePlayerRemovesAllOfOne ==
    [][ ((queueCall' # queueCall \/ queue' # queue) /\ queueCall'.op = "remove_player")
         => LET a == queueCall'.player_address
                others == {i \in 1..Len(queue) : queue[i].player_address # a}
            IN  /\ \A k \in 1..Len(queue') : queue'[k].player_address # a
                /\ Len(queue') = Cardinality(others)
                /\ \A i \in others : \E k \in 1..Len(queue') : queue'[k] = queue[i]
                /\ \A k, l \in 1..Len(queue') :
                      k < l => PositionIn(queue, queue'[k]) < PositionIn(queue, queue'[l])
                /\ (others = 1..Len(queue)) => queue' = queue ]_vars

C31_Witness ==
    /\ queueCall.op = "remove_player"
    /\ queueCall.player_address = "0xA"
    /\ joined = 3
    /\ Len(queue) = 1
    /\ queue[1].joined_at = 2
    /\ queue[1].player_address = "0xB"

\* C32: add_player, find_match and remove_player are atomic with respect
\* to each other: under every interleaving of their statements no entry is
\* returned by two find_match calls, the entry a find_match returns is the
\* entry it removed, no entry a remove_player withdrew is matched later,
\* and an entry appended while a remove_player of another player is in
\* progress stays queued.
C32_QueueCallsAreAtomic ==
    /\ queueHistory.returned_again = {}
    /\ queueHistory.returned_not_popped = {}
    /\ ~queueHistory.index_error
    /\ queueHistory.returned_withdrawn = {}
    /\ \A e \in queueHistory.appended :
          \/ \E k \in 1..Len(queue) : queue[k].joined_at = e
          \/ e \in queueHistory.popped
          \/ e \in queueHistory.withdrawn

\* C34: the round table holds no process-wide state: every DrandVerifier
\* object owns its table, so get_round on an object returns the rounds the
\* module ships with and the rounds added through that object, never a
\* round added or overwritten through another object.
C34_VerifierOwnsItsTable ==
    instanceCall.op = "get_round"
        => LET own == verifiers[instanceCall.self].added
               n == instanceCall.round_num
           IN  instanceCall.ret =
                    IF n \in DOMAIN own THEN <<own[n]>>
                    ELSE get_round(KNOWN_DRAND_ROUNDS, n)

\* C35: calculate_outcome is exactly uniform over complete periods: for
\* min <= max and n = max - min + 1, the n consecutive values from a
\* multiple of n on map one-to-one onto min..max, so after m * n
\* consecutive values every outcome has been counted exactly m times.
C35_UniformOverCompletePeriods ==
    block.pc # "idle"
        => LET n == block.max_val - block.min_val + 1
           IN  /\ block.strays = 0
               /\ \A o \in DOMAIN block.outcomes :
                     /\ block.outcomes[o] >= block.trials \div n
                     /\ block.outcomes[o] <= (block.trials \div n) + 1
                     /\ block.trials % n = 0 => block.outcomes[o] = block.trials \div n
               /\ block.pc = "counted"
                    => \A o \in block.min_val..block.max_val :
                          block.outcomes[o] = block.periods

C35_Witness ==
    /\ block.pc = "counted"
    /\ block.min_val = 1 /\ block.max_val = 6
    /\ block.periods = 2
    /\ block.trials = 12
    /\ Len(block.drand_value.mag) > 60
    /\ \A o \in 1..6 : block.outcomes[o] = 2

\* C36: game.calculate_outcome, DrandVerifier.calculate_outcome and
\* demo_real_drand.calculate_outcome return the same value, or fail alike,
\* for every drand_value, min and max, negative values and max < min
\* included; so the outcome the game computes for a round of the table is
\* the outcome verify_game confirms for that round.
C36_ThreeCopiesAgree ==
    /\ deriveCall.op = "calculate_outcome"
          => /\ deriveCall.verifier_outcome = deriveCall.game_outcome
             /\ deriveCall.demo_outcome = deriveCall.game_outcome
    /\ ( /\ verifyCall.op = "test_auto_verify"
         /\ verifyCall.round_num \in DOMAIN known_rounds
         /\ verifyCall.result.raised = "" )
          => /\ verifyCall.result.valid
             /\ verifyCall.result.actual_outcome = <<verifyCall.claimed_outcome>>

C36_Witness ==
    /\ deriveCall.op = "calculate_outcome"
    /\ deriveCall.drand_value.neg
    /\ deriveCall.min_val = 6 /\ deriveCall.max_val = 1
    /\ deriveCall.demo_outcome.ok
    /\ deriveCall.demo_outcome = deriveCall.verifier_outcome
    /\ verifyCall.op = "test_auto_verify"
    /\ verifyCall.round_num = 17598
    /\ verifyCall.min_val = 1 /\ verifyCall.max_val = 6
    /\ verifyCall.claimed_outcome = 2
    /\ verifyCall.result.valid

\* C37: fetch_drand_value is a function of the round number and the round
\* table: it returns the integer value of the randomness stored for the
\* round, and two calls for the same round on the same table return the
\* same value.
C37_FetchIsDeterministic ==
    /\ [](verifyCall.op = "fetch_drand_value"
            => /\ verifyCall.round_num \in DOMAIN known_rounds
               /\ PyIntBase16Wide(known_rounds[verifyCall.round_num].randomness)
                    = [ok |-> verifyCall.result.raised = "",
                       val |-> verifyCall.drand_value])
    /\ [][ ( /\ verifyCall.op = "fetch_drand_value"
             /\ verifyCall'.op = "fetch_drand_value"
             /\ verifyCall'.round_num = verifyCall.round_num
             /\ known_rounds' = known_rounds )
            => /\ verifyCall'.drand_value = verifyCall.drand_value
               /\ verifyCall'.result.raised = verifyCall.result.raised ]_vars

\* C38: get_matchmaking_queue is a singleton accessor: every call, calls
\* that race on first use included, returns the same MatchmakingQueue, so
\* the players added through one caller's queue are those every other
\* caller's queue holds.
C38_AccessorReturnsOneQueue ==
    /\ Len(singleton.queues) <= 1
    /\ \A t, u \in Callers :
          (getters[t].ret # 0 /\ getters[u].ret # 0)
              => /\ getters[t].ret = getters[u].ret
                 /\ singleton.queues[getters[t].ret] = singleton.queues[getters[u].ret]

\* C39: wait_for_round always terminates: it returns the round data as
\* soon as a fetch succeeds and otherwise raises TimeoutError once the
\* accumulated wait reaches 600 seconds, for every check_interval, 0
\* included; a failed attempt ends the wait with no other error.
C39_WaitForRoundTerminates ==
    /\ <>(waiter.pc = "done")
    /\ [](waiter.pc = "done" => waiter.outcome \in {"returned", "TimeoutError"})
    /\ [](waiter.outcome = "TimeoutError" => waiter.elapsed >= max_wait)

====
